---- MODULE Spec2Model ----
(***************************************************************************)
(* cursor-notifier: the extension's management of .cursor/hooks.json under *)
(* the lock file, and the hook scripts' start-time table.                  *)
(*                                                                         *)
(* Source: src/unnamed/part_000 (lines 1-722 the after-agent-response      *)
(* hook, lines 724-1578 the extension) and                                 *)
(* src/assets/hooks/before-submit-prompt.cjs.                              *)
(***************************************************************************)
EXTENDS Integers, Sequences, FiniteSets, TLC

(***************************************************************************)
(* Bounds of the model.                                                    *)
(***************************************************************************)
\* longest event list of a registry the sequential specification starts from
MaxLen == 2
\* operations run one after the other in the sequential specification
MaxSeqOps == 2
\* operations the callers of the concurrent specification start in total
MaxOps == 2
\* writes of hooks.json the file system lets fail
MaxWriteFailures == 1
\* hook script invocations of the hook specification
MaxHookRuns == 3
\* latest value of the clock (Date.now()) in the hook specification
MaxClock == 2
\* calls of the atomic write
MaxWrites == 3
\* longest bundled script, in characters and markers
MaxSrcLen == 3
\* longest script in .cursor/hooks, in characters and markers
MaxDestLen == 4
\* runs of the extension's handlers in the settings specification
MaxHandlers == 3
\* longest botToken and chatId of the workspace config, in characters
MaxTokenLen == 2
\* longest telegram.minDuration of the workspace config, in characters
MaxDurLen == 5
\* longest text given to splitTextByLimit, in characters
MaxTextLen == 5
\* largest chunk limit given to splitTextByLimit, in characters
MaxLimit == 3
\* longest text given to sendTelegramMessage, in characters and entities
MaxMsgLen == 4
\* longest summary, request and file path of a payload, in characters
MaxFieldLen == 323
\* most changed files of a payload
MaxFiles == 9
MaxEvents == 2
MaxChanges == 3
MaxMillis == 2
MaxIgnoreLines == 2

(***************************************************************************)
(* Program constants.                                                      *)
(***************************************************************************)
LOCK_MAX_RETRIES == 8

HOOK_COMMAND_AFTER == "CA"
HOOK_COMMAND_BEFORE == "CB"
HOOK_COMMANDS == {HOOK_COMMAND_AFTER, HOOK_COMMAND_BEFORE}

(***************************************************************************)
(* The content of hooks.json.                                              *)
(*                                                                         *)
(* kind    "nofile"  the file does not exist                               *)
(*         "garbage" JSON.parse throws, or the document is not an object   *)
(*         "json"    a JSON object                                         *)
(* version "absent" (no number under `version`), or the number "1" or "2" *)
(* hooks   "undef" (no `hooks` key), "bad" (not a plain object) or "obj"   *)
(* after, before: the values under hooks.afterAgentResponse and            *)
(*         hooks.beforeSubmitPrompt: kind "undef" (no key), "bad" (not an  *)
(*         array) or "list" with its items in order.                       *)
(* An item is the command string of a {command: string} object, or "null", *)
(* the JSON value null (reading its .command throws a TypeError).          *)
(* rest    "none", or "kept": the document has top-level fields other than *)
(*         version and hooks, and hooks has events other than the two      *)
(***************************************************************************)
NullEntry == "null"
UserCommands == {"U1", "U2"}
Entries == HOOK_COMMANDS \cup UserCommands \cup {NullEntry}

UndefList == [kind |-> "undef", items |-> <<>>]
BadList == [kind |-> "bad", items |-> <<>>]
ListOf(items) == [kind |-> "list", items |-> items]

NoFile ==
  [kind |-> "nofile", version |-> "absent", hooks |-> "undef",
   after |-> UndefList, before |-> UndefList, rest |-> "none"]
Garbage ==
  [kind |-> "garbage", version |-> "absent", hooks |-> "undef",
   after |-> UndefList, before |-> UndefList, rest |-> "none"]
JsonWith(version, hooks, after, before, rest) ==
  [kind |-> "json", version |-> version, hooks |-> hooks,
   after |-> after, before |-> before, rest |-> rest]
Json(version, hooks, after, before) ==
  JsonWith(version, hooks, after, before, "none")

Versions == {"absent", "1", "2"}

SeqsUpTo(S, n) == UNION {[1..k -> S] : k \in 0..n}
ListValues(n) == {UndefList, BadList} \cup {ListOf(s) : s \in SeqsUpTo(Entries, n)}

\* every content of hooks.json with event lists of at most n items
Registries(n) ==
  {NoFile, Garbage}
    \cup {Json(v, "undef", UndefList, UndefList) : v \in Versions}
    \cup {Json(v, "bad", UndefList, UndefList) : v \in Versions}
    \cup {Json(v, "obj", a, b) :
            v \in Versions, a \in ListValues(n), b \in ListValues(n)}
    \cup {JsonWith("1", "obj", a, b, "kept") :
            a \in ListValues(n - 1), b \in ListValues(n - 1)}

NoDup(s) == \A i, j \in 1..Len(s) : s[i] = s[j] => i = j
Items(l) == IF l.kind = "list" THEN l.items ELSE <<>>
Range(s) == {s[i] : i \in 1..Len(s)}

\* the registry of the data model: a mapping from event name to a list of
\* {command: string} objects, commands unique within a list
ShapeOk(l) == l.kind # "bad" /\ NullEntry \notin Range(l.items)
SpecValid(f) ==
  \/ f.kind = "nofile"
  \/ /\ f.kind = "json"
     /\ f.hooks # "bad"
     /\ ShapeOk(f.after) /\ ShapeOk(f.before)
     /\ NoDup(f.after.items) /\ NoDup(f.before.items)

(***************************************************************************)
(* parseHooksJson, readHooksConfig                                         *)
(***************************************************************************)
\* entry.command of a list item: a TypeError for null
EntryThrows(e) == e = NullEntry

\* Array.prototype.some over the items in order with the test
\* `entry.command \in cmds`: "true" at the first match, "throw" at a null
\* reached before any match, "false" at the end
RECURSIVE SomeCommand(_, _)
SomeCommand(items, cmds) ==
  IF items = <<>> THEN "false"
  ELSE IF EntryThrows(Head(items)) THEN "throw"
  ELSE IF Head(items) \in cmds THEN "true"
  ELSE SomeCommand(Tail(items), cmds)

\* parseHooksJson returns a config (TRUE) or returns null / throws (FALSE);
\* every caller treats null and a throw alike
ParseOk(f) ==
  /\ f.kind = "json"
  /\ f.hooks # "bad"
  /\ f.after.kind # "bad"
  /\ \A i \in 1..Len(f.after.items) : f.after.items[i] # NullEntry

ReadHooksConfig(f) ==
  IF f.kind = "nofile" THEN [valid |-> TRUE, hasHookCommand |-> FALSE]
  ELSE IF ~ParseOk(f) THEN [valid |-> FALSE, hasHookCommand |-> FALSE]
  ELSE LET r == SomeCommand(Items(f.after) \o Items(f.before), HOOK_COMMANDS)
       IN IF r = "throw" THEN [valid |-> FALSE, hasHookCommand |-> FALSE]
          ELSE [valid |-> TRUE, hasHookCommand |-> (r = "true")]

(***************************************************************************)
(* upsertHooksJson's action                                                *)
(***************************************************************************)
\* ensureHookArray: the list under the key, or a fresh empty list put there
EnsureHookArray(l) == IF l.kind = "list" THEN l.items ELSE <<>>

AddHookCommandNever(entries, command) ==
  [changed |-> FALSE, threw |-> FALSE, entries |-> entries]

AddHookCommandAlways(entries, command) ==
  [changed |-> TRUE, threw |-> FALSE, entries |-> Append(entries, command)]

AddHookCommandFirst(entries, command) ==
  IF command \in {entries[i] : i \in 1..Len(entries)}
  THEN [changed |-> FALSE, threw |-> FALSE, entries |-> entries]
  ELSE [changed |-> TRUE, threw |-> FALSE, entries |-> <<command>> \o entries]

\* addHookCommandIfMissing: push unless some entry has the command
AddHookCommandIfMissing(entries, command) ==
  LET r == SomeCommand(entries, {command})
  IN IF r = "throw" THEN [changed |-> FALSE, threw |-> TRUE, entries |-> entries]
     ELSE IF r = "true"
       THEN [changed |-> FALSE, threw |-> FALSE, entries |-> entries]
       ELSE [changed |-> TRUE, threw |-> FALSE, entries |-> Append(entries, command)]

\* The action of upsertHooksJson on the content it reads. outcome:
\*   "skip"   invalid hooks.json, nothing done
\*   "throw"  the action threw before writing
\*   "same"   changed = false, no write
\*   "write"  writeJsonAtomic(config) follows
UpsertAction(f) ==
  IF f.kind # "nofile" /\ ~ParseOk(f) THEN [outcome |-> "skip", config |-> f]
  ELSE
    LET versionChanged == f.version = "absent"
        version == IF versionChanged THEN "1" ELSE f.version
        hooksChanged == f.hooks # "obj"
        a == AddHookCommandIfMissing(EnsureHookArray(f.after), HOOK_COMMAND_AFTER)
        b == AddHookCommandIfMissing(EnsureHookArray(f.before), HOOK_COMMAND_BEFORE)
        config == JsonWith(version, "obj", ListOf(a.entries), ListOf(b.entries),
                           f.rest)
    IN IF a.threw \/ b.threw THEN [outcome |-> "throw", config |-> f]
       ELSE IF versionChanged \/ hooksChanged \/ a.changed \/ b.changed
         THEN [outcome |-> "write", config |-> config]
         ELSE [outcome |-> "same", config |-> f]

(***************************************************************************)
(* removeHookCommand's action                                              *)
(***************************************************************************)
\* a filter that knows one hook command only
RECURSIVE FilterAfterCommandOnly(_)
FilterAfterCommandOnly(items) ==
  IF items = <<>> THEN <<>>
  ELSE IF Head(items) = HOOK_COMMAND_AFTER THEN FilterAfterCommandOnly(Tail(items))
  ELSE <<Head(items)>> \o FilterAfterCommandOnly(Tail(items))

\* entries.filter(entry => !HOOK_COMMANDS.some(c => entry.command === c))
RECURSIVE FilterHookCommands(_)
FilterHookCommands(items) ==
  IF items = <<>> THEN <<>>
  ELSE IF Head(items) \in HOOK_COMMANDS THEN FilterHookCommands(Tail(items))
  ELSE <<Head(items)>> \o FilterHookCommands(Tail(items))

FilterThrows(items) == \E i \in 1..Len(items) : EntryThrows(items[i])

RemoveAction(f) ==
  IF f.kind = "nofile" THEN [outcome |-> "same", config |-> f]
  ELSE IF ~ParseOk(f) THEN [outcome |-> "skip", config |-> f]
  ELSE
    LET existingAfter == Items(f.after)
        existingBefore == Items(f.before)
        filteredAfter == FilterHookCommands(existingAfter)
        filteredBefore == FilterHookCommands(existingBefore)
    IN IF FilterThrows(existingAfter) \/ FilterThrows(existingBefore)
         THEN [outcome |-> "throw", config |-> f]
       ELSE IF Len(filteredAfter) = Len(existingAfter)
               /\ Len(filteredBefore) = Len(existingBefore)
         THEN [outcome |-> "same", config |-> f]
       ELSE [outcome |-> "write",
             config |-> JsonWith(f.version, "obj", ListOf(filteredAfter),
                                 ListOf(filteredBefore), f.rest)]

\* the sequential specification's hooks.json and its log of runs
VARIABLES seqFile, seqLog

seqVars == <<seqFile, seqLog>>

\* the hook specification's state
VARIABLES
  startFile,    \* content of .cursor/cursor-notifier-start.json
  now,          \* Date.now()
  hpc,          \* where each hook process is
  hdata,        \* the table the process hands to writeJsonFile
  hookRuns,     \* hook invocations so far
  sawPartial,   \* history: a readJsonFile of the process met a file being written
  hjob,         \* the hook the process runs, its generation id and startedAt
  hret,         \* the latest return of getDurationMs, and how many there were
  live,         \* history: the entries recorded and not consumed since
  twice,        \* history: a duration was obtained for an entry consumed before
  overlap       \* history: a hook process started while another was running

hookHistory == <<live, twice, overlap>>

hookVars == <<startFile, now, hpc, hdata, hookRuns, sawPartial, hjob, hret, hookHistory>>

\* the atomic-write specification's state: one call of writeJsonAtomic or
\* writeJsonFileAtomic at a time on one destination
VARIABLES
  wDest,        \* content of the destination file, "none" when it is not there
  wTemp,        \* content of the temporary file: "absent", "partial" or a document
  wpc,          \* where the call is
  wPayload,     \* the document the call serializes
  wCalls,       \* calls so far
  wDest0,       \* history: the destination when the call began
  wFailedAt     \* history: the step of the call that failed, "none" if none

writeVars == <<wDest, wTemp, wpc, wPayload, wCalls, wDest0, wFailedAt>>

\* no call of the atomic write has been made on destination d
WriteStart(d) ==
  /\ wDest = d /\ wDest0 = d
  /\ wTemp = "absent"
  /\ wpc = "idle"
  /\ wPayload = "none"
  /\ wCalls = 0
  /\ wFailedAt = "none"

\* the script-copy specification's state: one call of copyHookIfMissing
VARIABLES
  cSrc,         \* content of the bundled script
  cDest,        \* the script in .cursor/hooks: whether it exists, and its content
  cDest0,       \* history: the destination before the call
  cDone         \* copyHookIfMissing has returned

copyVars == <<cSrc, cDest, cDest0, cDone>>

AbsentScript == [exists |-> FALSE, text |-> <<>>]
ScriptFile(text) == [exists |-> TRUE, text |-> text]

\* no call of copyHookIfMissing has been made
CopyStart(src, dest) ==
  /\ cSrc = src
  /\ cDest = dest /\ cDest0 = dest
  /\ cDone = FALSE

\* the settings specification's state: the extension's handlers, each run to
\* its end, over the workspace folders
VARIABLES
  sEnabled,     \* the setting cursor-notifier.enabled
  sHooks,       \* content of .cursor/hooks.json of each workspace folder
  sSynced,      \* syncWorkspaceConfig has written the folders' config
  sHandlers     \* handler runs so far

settingsVars == <<sEnabled, sHooks, sSynced, sHandlers>>

Folders == {"w1", "w2"}

\* the extension is active with the setting at its default and no handler
\* has run; every folder's hooks.json is h
SettingsStart(h) ==
  /\ sEnabled = TRUE
  /\ sHooks = h
  /\ sSynced = FALSE
  /\ sHandlers = 0

\* the relay specification's state: one call of maybeSendTelegram
VARIABLES
  rConfig,      \* content of .cursor/cursor-notifier.json
  rDuration,    \* durationMs, NoEntry for null
  rSent,        \* requests sent to the chat API
  rDone         \* maybeSendTelegram has returned

relayVars == <<rConfig, rDuration, rSent, rDone>>

\* a value of the config: a text, or nothing where the key is missing
Missing == [present |-> FALSE, text |-> <<>>]
Text(t) == [present |-> TRUE, text |-> t]

NoConfigFile ==
  [kind |-> "nofile", hasTelegram |-> FALSE, enabled |-> "absent",
   botToken |-> Missing, chatId |-> Missing, minDuration |-> Missing,
   includeFullResponse |-> FALSE]

\* no call of maybeSendTelegram has been made
RelayStart(config, durationMs) ==
  /\ rConfig = config
  /\ rDuration = durationMs
  /\ rSent = 0
  /\ rDone = FALSE

\* the split specification's state: one call of splitTextByLimit
VARIABLES
  tText,        \* the text argument
  tLimit,       \* the limit argument
  tChunks,      \* the chunks returned
  tDone         \* splitTextByLimit has returned

splitVars == <<tText, tLimit, tChunks, tDone>>

\* no call of splitTextByLimit has been made
SplitStart(text, limit) ==
  /\ tText = text
  /\ tLimit = limit
  /\ tChunks = <<>>
  /\ tDone = FALSE

\* the send specification's state: one call of sendTelegramMessage from
\* outside, and the call it makes of itself
VARIABLES
  mText,        \* the text argument of the call in progress
  mParseMode,   \* its parseMode argument: "HTML", or "none" for null
  mAttempts,    \* the requests made so far: text, parse mode and outcome
  mResult       \* "pending", or what the outer call returned

sendVars == <<mText, mParseMode, mAttempts, mResult>>

\* sendTelegramMessage has been called and has made no request yet
SendStart(text, parseMode) ==
  /\ mText = text
  /\ mParseMode = parseMode
  /\ mAttempts = <<>>
  /\ mResult = "pending"

\* the after-hook specification's state: one run of the hook, notify(input)
VARIABLES
  nPc,              \* "duration", "notify", "relay", "send", "done"
  nPlatform,        \* process.platform: "darwin", "win32", "other"
  nPlan,            \* the messages maybeSendTelegram sends in this run
  nStartIo,         \* "none", or the outcome of the start-time file I/O
  nNotified,        \* OS notification commands launched
  nNotifyOutcome,   \* "none", or the outcome of the OS notification
  nRelayEvaluated,  \* maybeSendTelegram has been entered
  nPending,         \* messages still to send, the head in progress
  nRequests,        \* requests made: message, parse mode and outcome
  nExit             \* "running", "success", "failure"

notifyVars == <<nPc, nPlatform, nPlan, nStartIo, nNotified, nNotifyOutcome,
                nRelayEvaluated, nPending, nRequests, nExit>>

\* the hook has read its input and has not started notify
NotifyStart(platform, plan) ==
  /\ nPc = "duration"
  /\ nPlatform = platform
  /\ nPlan = plan
  /\ nStartIo = "none"
  /\ nNotified = 0
  /\ nNotifyOutcome = "none"
  /\ nRelayEvaluated = FALSE
  /\ nPending = <<>>
  /\ nRequests = <<>>
  /\ nExit = "running"

\* the message specification's state: one call of buildTelegramMessage
VARIABLES
  gPayload,     \* the hook's input, the fields the message is built of
  gDurationMs,  \* the duration in milliseconds, NoEntry for null
  gLines,       \* the lines of the message built
  gDone         \* buildTelegramMessage has returned

messageVars == <<gPayload, gDurationMs, gLines, gDone>>

\* a payload with none of the fields, and the default status of the
\* environment
NoPayload ==
  [status |-> Missing, model |-> Missing, generationId |-> Missing,
   summary |-> Missing, request |-> Missing, changedFiles |-> <<>>,
   envStatus |-> <<"O", "K">>]

\* no call of buildTelegramMessage has been made
MessageStart(payload, durationMs) ==
  /\ gPayload = payload
  /\ gDurationMs = durationMs
  /\ gLines = <<>>
  /\ gDone = FALSE

\* the provisioning specification's state: one call of ensureCursorHook
\* for a workspace folder
VARIABLES
  pFile,        \* content of .cursor/hooks.json
  pScripts,     \* the scripts of .cursor/hooks
  pEnabledKey,  \* globalState: the user enabled the notifications here
  pSkipKey,     \* globalState: the user answered "Not now"
  pIgnore,      \* .gitignore holds the tool's entries
  pSynced,      \* .cursor/cursor-notifier.json was written
  pLast         \* the last call: what it found, its inputs, what it returned

provisionVars == <<pFile, pScripts, pEnabledKey, pSkipKey, pIgnore, pSynced, pLast>>

NoScriptFiles ==
  [s \in {"after-agent-response.js", "before-submit-prompt.js"} |-> "absent"]

NoCall == [ran |-> FALSE]

\* ensureCursorHook has not been called
ProvisionStart(f, sc, enabled, skip) ==
  /\ pFile = f
  /\ pScripts = sc
  /\ pEnabledKey = enabled /\ pSkipKey = skip
  /\ pIgnore = FALSE /\ pSynced = FALSE
  /\ pLast = NoCall

\* the config-sync specification's state: calls of syncWorkspaceConfig of one
\* extension process on one workspace folder
VARIABLES
  ySettings,    \* the version of the extension settings
  yMillis,      \* Date.now()
  yCall,        \* each call: where it is, the config it built, its temp path
  yTemps,       \* the temporary files in .cursor, by path
  yDest,        \* content of .cursor/cursor-notifier.json
  yChanges      \* settings changes so far

syncVars == <<ySettings, yMillis, yCall, yTemps, yDest, yChanges>>

Syncers == {1, 2}
\* a slot without a call
NoSync == [pc |-> "idle", config |-> 0, temp |-> 0]

\* no call of syncWorkspaceConfig has been made; the config file holds the
\* settings as they are
SyncStart(settings) ==
  /\ ySettings = settings
  /\ yMillis = 0
  /\ yCall = [c \in Syncers |-> NoSync]
  /\ yTemps = <<>>
  /\ yDest = settings
  /\ yChanges = 0

\* the ignore-file specification's state: calls of ensureGitignoreEntries on
\* the .gitignore of one workspace folder.  A text is a sequence of
\* characters; a pattern or a word without blanks counts as one character.
VARIABLES
  iFile,        \* the .gitignore: whether it exists, and its text
  iLog          \* the calls so far: the file before, the file after, wrote

ignoreVars == <<iFile, iLog>>

AbsentIgnoreFile == [exists |-> FALSE, text |-> <<>>]
IgnoreFile(text) == [exists |-> TRUE, text |-> text]

\* ensureGitignoreEntries has not been called
IgnoreStart(f) ==
  /\ iFile = f
  /\ iLog = <<>>

\* the state of the message and provisioning operations specified one by one
auxVars == <<splitVars, sendVars, notifyVars, messageVars, provisionVars, syncVars, ignoreVars>>

AuxStart ==
  /\ SplitStart(<<>>, 1)
  /\ SendStart(<<>>, "none")
  /\ NotifyStart("darwin", <<>>)
  /\ MessageStart(NoPayload, 0)
  /\ ProvisionStart(NoFile, NoScriptFiles, FALSE, FALSE)
  /\ SyncStart(0)
  /\ IgnoreStart(AbsentIgnoreFile)

\* that state short of one operation's own
auxButSplit == <<sendVars, notifyVars, messageVars, provisionVars, syncVars, ignoreVars>>
auxButSend == <<splitVars, notifyVars, messageVars, provisionVars, syncVars, ignoreVars>>
auxButNotify == <<splitVars, sendVars, messageVars, provisionVars, syncVars, ignoreVars>>
auxButMessage == <<splitVars, sendVars, notifyVars, provisionVars, syncVars, ignoreVars>>
auxButProvision == <<splitVars, sendVars, notifyVars, messageVars, syncVars, ignoreVars>>
auxButSync == <<splitVars, sendVars, notifyVars, messageVars, provisionVars, ignoreVars>>
auxButIgnore == <<splitVars, sendVars, notifyVars, messageVars, provisionVars, syncVars>>

AuxStartButSplit ==
  /\ SendStart(<<>>, "none")
  /\ NotifyStart("darwin", <<>>)
  /\ MessageStart(NoPayload, 0)
  /\ ProvisionStart(NoFile, NoScriptFiles, FALSE, FALSE)
  /\ SyncStart(0)
  /\ IgnoreStart(AbsentIgnoreFile)

AuxStartButSend ==
  /\ SplitStart(<<>>, 1)
  /\ NotifyStart("darwin", <<>>)
  /\ MessageStart(NoPayload, 0)
  /\ ProvisionStart(NoFile, NoScriptFiles, FALSE, FALSE)
  /\ SyncStart(0)
  /\ IgnoreStart(AbsentIgnoreFile)

AuxStartButNotify ==
  /\ SplitStart(<<>>, 1)
  /\ SendStart(<<>>, "none")
  /\ MessageStart(NoPayload, 0)
  /\ ProvisionStart(NoFile, NoScriptFiles, FALSE, FALSE)
  /\ SyncStart(0)
  /\ IgnoreStart(AbsentIgnoreFile)

AuxStartButMessage ==
  /\ SplitStart(<<>>, 1)
  /\ SendStart(<<>>, "none")
  /\ NotifyStart("darwin", <<>>)
  /\ ProvisionStart(NoFile, NoScriptFiles, FALSE, FALSE)
  /\ SyncStart(0)
  /\ IgnoreStart(AbsentIgnoreFile)

AuxStartButProvision ==
  /\ SplitStart(<<>>, 1)
  /\ SendStart(<<>>, "none")
  /\ NotifyStart("darwin", <<>>)
  /\ MessageStart(NoPayload, 0)
  /\ SyncStart(0)
  /\ IgnoreStart(AbsentIgnoreFile)

AuxStartButSync ==
  /\ SplitStart(<<>>, 1)
  /\ SendStart(<<>>, "none")
  /\ NotifyStart("darwin", <<>>)
  /\ MessageStart(NoPayload, 0)
  /\ ProvisionStart(NoFile, NoScriptFiles, FALSE, FALSE)
  /\ IgnoreStart(AbsentIgnoreFile)

AuxStartButIgnore ==
  /\ SplitStart(<<>>, 1)
  /\ SendStart(<<>>, "none")
  /\ NotifyStart("darwin", <<>>)
  /\ MessageStart(NoPayload, 0)
  /\ ProvisionStart(NoFile, NoScriptFiles, FALSE, FALSE)
  /\ SyncStart(0)
pureVars == <<writeVars, copyVars, settingsVars, relayVars, auxVars>>

\* the state the other specifications keep these variables in
PureStart ==
  /\ WriteStart("none")
  /\ CopyStart(<<>>, AbsentScript)
  /\ SettingsStart([w \in Folders |-> NoFile])
  /\ RelayStart(NoConfigFile, 0)
  /\ AuxStart

(***************************************************************************)
(* The start-time table, .cursor/cursor-notifier-start.json: a mapping     *)
(* from generation id to the time the before-hook recorded, NoEntry where  *)
(* the id has no entry.  The file is                                       *)
(*   "nofile"   not there                                                  *)
(*   "partial"  open for writing, truncated or written in part: JSON.parse *)
(*              of what is there throws                                    *)
(*   "table"    a complete JSON document                                   *)
(***************************************************************************)
Gens == {"g1", "g2"}
NoEntry == -1
EmptyTable == [g \in Gens |-> NoEntry]

NoStartFile == [kind |-> "nofile", table |-> EmptyTable]
PartialFile == [kind |-> "partial", table |-> EmptyTable]
TableFile(t) == [kind |-> "table", table |-> t]

HookProcs == {1, 2}

\* readJsonFile: the parsed table, or null (here EmptyTable with ok FALSE)
\* when the file is missing or does not parse
ReadJsonFile(f) ==
  IF f.kind = "table" THEN [ok |-> TRUE, table |-> f.table]
  ELSE [ok |-> FALSE, table |-> EmptyTable]

\* a process that runs no hook, and getDurationMs not yet called
NoJob == [kind |-> "none", gen |-> "none", startedAt |-> NoEntry]
NoReturn == [n |-> 0, got |-> 0, gen |-> "none", dur |-> NoEntry]

HookStart(f) ==
  /\ startFile = f
  /\ now = 0
  /\ hpc = [p \in HookProcs |-> "idle"]
  /\ hdata = [p \in HookProcs |-> EmptyTable]
  /\ hookRuns = 0
  /\ sawPartial = [p \in HookProcs |-> FALSE]
  /\ hjob = [p \in HookProcs |-> NoJob]
  /\ hret = NoReturn
  /\ live = f.table
  /\ twice = FALSE
  /\ overlap = FALSE

(***************************************************************************)
(* Hook scripts of a workspace.  A script in .cursor/hooks is              *)
(*   "absent"      not there                                               *)
(*   "bundled"     byte-identical to the bundled script                    *)
(*   "oldManaged"  different, with the marker pair around an older block   *)
(*   "merged"      different outside the markers, the bundled block inside *)
(*   "unmarked"    different, without the marker pair                      *)
(***************************************************************************)
HOOK_SCRIPTS == {"after-agent-response.js", "before-submit-prompt.js"}

\* copyHookIfMissing on the destination; the bundled script exists and holds
\* the marker pair
CopyHookIfMissing(dest) ==
  CASE dest = "absent" -> "bundled"
    [] dest = "oldManaged" -> "merged"
    [] OTHER -> dest

RemoveHookScriptAlways(dest) == "absent"

\* removeHookScriptIfOwned on one destination
RemoveHookScriptIfOwned(dest) == IF dest = "bundled" THEN "absent" ELSE dest

(***************************************************************************)
(* Concurrent specification: callers (extension hosts and their handlers)  *)
(* run ensureCursorHook, setWorkspaceHookEnabled(false) and                *)
(* removeWorkspaceHookOnDeactivate on one workspace, which is a directory. *)
(* A step of a caller is the code between two awaits that touch shared     *)
(* state.  A caller is a slot: a new operation takes the first idle slot,  *)
(* and a slot keeps nothing of the operation it finished.                  *)
(***************************************************************************)
Callers == {1, 2}
NoOne == 0

VARIABLES
  hooksFile,    \* content of .cursor/hooks.json
  lockFile,     \* NoOne, or the caller whose fs.open(lockPath, "wx") created it
  scripts,      \* content of each script of .cursor/hooks
  enabledKey,   \* globalState enabledPrompt:<workspace>
  skipKey,      \* globalState skipPrompt:<workspace>
  wsFiles,      \* .gitignore and .cursor/cursor-notifier.json were written
  pc,           \* where each caller is
  op,           \* the operation each caller runs
  attempt,      \* withHooksJsonLock's loop variable
  pending,      \* the config the action hands to writeJsonAtomic
  err,          \* the error the action threw, "none" if none
  outcome,      \* how the caller's withHooksJsonLock call ended
  opsStarted,   \* operations started so far
  writeFailures,\* failed writes so far
  hooksFile0,   \* history: the content of hooks.json at the start
  intended,     \* history: ensureCursorHook calls that reached upsertHooksJson
  opens,        \* history: fs.open attempts of the caller's current lock call
  ran,          \* history: runs of the action in the caller's current lock call
  blocked       \* history: the lock file existed all through the current call

files == <<hooksFile, lockFile, scripts, wsFiles>>
consent == <<enabledKey, skipKey>>
locals == <<pc, op, attempt, pending, err, outcome>>
counters == <<opsStarted, writeFailures>>
history == <<hooksFile0, intended>>
lockHistory == <<opens, ran, blocked>>

conVars == <<files, consent, locals, counters, history, lockHistory>>

vars == <<seqVars, hookVars, pureVars, conVars>>

\* what every step of the concurrent specification leaves alone
others == <<seqVars, hookVars, pureVars>>

Holding(c) == pc[c] \in {"act", "write", "release"}

\* a new operation takes the first idle slot
FirstIdle(c) == pc[c] = "idle" /\ \A d \in Callers : d < c => pc[d] # "idle"

\* an operation starts
StartOp(c) ==
  /\ FirstIdle(c) /\ opsStarted < MaxOps
  /\ opsStarted' = opsStarted + 1

\* the call of withHooksJsonLock begins: attempt = 0
BeginLockCall(c) ==
  /\ pc' = [pc EXCEPT ![c] = "open"]
  /\ opens' = [opens EXCEPT ![c] = 0]
  /\ ran' = [ran EXCEPT ![c] = 0]
  /\ blocked' = [blocked EXCEPT ![c] = (lockFile # NoOne)]

\* the operation is over; the slot is free again
Return(c) ==
  /\ pc' = [pc EXCEPT ![c] = "idle"]
  /\ op' = [op EXCEPT ![c] = "none"]
  /\ attempt' = [attempt EXCEPT ![c] = 0]
  /\ outcome' = [outcome EXCEPT ![c] = "none"]
  /\ opens' = [opens EXCEPT ![c] = 0]
  /\ ran' = [ran EXCEPT ![c] = 0]
  /\ blocked' = [blocked EXCEPT ![c] = FALSE]

\* ensureCursorHook up to its first await after readHooksConfig: the read of
\* hooks.json, the early return on an invalid file, globalState.update when
\* the command is there, and promptToEnableHooks up to the modal prompt
\* (which is not shown, and answers false, once skipPrompt is stored)
StartEnsure(c, allowPrompt) ==
  /\ StartOp(c)
  /\ LET cfg == ReadHooksConfig(hooksFile)
         next == IF ~cfg.valid THEN "idle"
                 ELSE IF cfg.hasHookCommand \/ ~allowPrompt \/ enabledKey THEN "copy"
                 ELSE IF skipKey THEN "idle"
                 ELSE "prompt"
     IN /\ enabledKey' = (enabledKey \/ (cfg.valid /\ cfg.hasHookCommand))
        /\ pc' = [pc EXCEPT ![c] = next]
        /\ op' = [op EXCEPT ![c] = IF next = "idle" THEN "none" ELSE "ensure"]
  /\ UNCHANGED <<files, skipKey, attempt, pending, err, outcome, writeFailures,
                 history, lockHistory, others>>

SkipPromptForgotten(choice, skip) == skip

\* what promptToEnableHooks leaves under skipPrompt after the answer
SkipPromptAfter(choice, skip) ==
  CASE choice = "Enable notifications" -> FALSE
    [] choice = "Not now" -> TRUE
    [] OTHER -> skip

\* the user's answer to showInformationMessage, stored in globalState
Prompt(c, choice) ==
  /\ pc[c] = "prompt"
  /\ enabledKey' = (enabledKey \/ choice = "Enable notifications")
  /\ skipKey' = SkipPromptAfter(choice, skipKey)
  /\ IF choice = "Enable notifications"
       THEN /\ pc' = [pc EXCEPT ![c] = "copy"]
            /\ UNCHANGED <<op, attempt, outcome, lockHistory>>
       ELSE Return(c)
  /\ UNCHANGED <<files, pending, err, counters, history, others>>

\* fs.mkdir(hooksDir), copyHookIfMissing of every script, then the call of
\* upsertHooksJson
CopyHooks(c) ==
  /\ pc[c] = "copy"
  /\ scripts' = [s \in HOOK_SCRIPTS |-> CopyHookIfMissing(scripts[s])]
  /\ intended' = intended + 1
  /\ BeginLockCall(c)
  /\ UNCHANGED <<hooksFile, lockFile, wsFiles, consent, op, attempt, pending,
                 err, outcome, counters, hooksFile0, others>>

\* setWorkspaceHookEnabled(path, context, false): readHooksConfig, then
\* removeHookCommand unless the file is invalid
StartToggleOff(c) ==
  /\ StartOp(c)
  /\ IF ReadHooksConfig(hooksFile).valid
       THEN /\ BeginLockCall(c)
            /\ op' = [op EXCEPT ![c] = "toggleOff"]
       ELSE UNCHANGED <<pc, op, lockHistory>>
  /\ UNCHANGED <<files, consent, attempt, pending, err, outcome, writeFailures,
                 history, others>>

\* removeWorkspaceHookOnDeactivate: removeHookCommand, without a read before
StartDeactivate(c) ==
  /\ StartOp(c)
  /\ BeginLockCall(c)
  /\ op' = [op EXCEPT ![c] = "deactivate"]
  /\ UNCHANGED <<files, consent, attempt, pending, err, outcome, writeFailures,
                 history, others>>

OpenAlwaysSucceeds(lock) == TRUE

\* fs.open(lockPath, "wx") succeeds iff the lock file does not exist
OpenExclusiveSucceeds(lock) == lock = NoOne

RetriesLeftOffByOne(n) == n < LOCK_MAX_RETRIES - 1

\* attempt === LOCK_MAX_RETRIES ends the loop with the timeout error
RetriesLeft(n) == n # LOCK_MAX_RETRIES

\* one turn of withHooksJsonLock's loop up to the action: fs.open, and on
\* EEXIST either the timeout error, or sleep(LOCK_RETRY_DELAY_MS) and the
\* next turn
LockOpen(c) ==
  /\ pc[c] = "open"
  /\ opens' = [opens EXCEPT ![c] = @ + 1]
  /\ IF OpenExclusiveSucceeds(lockFile)
       THEN /\ lockFile' = c
            /\ pc' = [pc EXCEPT ![c] = "act"]
            /\ UNCHANGED <<attempt, outcome>>
       ELSE /\ UNCHANGED lockFile
            /\ IF RetriesLeft(attempt[c])
                 THEN /\ attempt' = [attempt EXCEPT ![c] = @ + 1]
                      /\ UNCHANGED <<pc, outcome>>
                 ELSE /\ outcome' = [outcome EXCEPT ![c] = "timeout"]
                      /\ pc' = [pc EXCEPT ![c] = "lockdone"]
                      /\ UNCHANGED attempt
  /\ UNCHANGED <<hooksFile, scripts, wsFiles, consent, op, pending, err, counters,
                 history, ran, blocked, others>>

ActionOf(o, f) == IF o = "ensure" THEN UpsertAction(f) ELSE RemoveAction(f)

\* the action passed to withHooksJsonLock, up to its call of writeJsonAtomic
Act(c) ==
  /\ pc[c] = "act"
  /\ ran' = [ran EXCEPT ![c] = @ + 1]
  /\ LET r == ActionOf(op[c], hooksFile)
     IN /\ pending' = [pending EXCEPT ![c] =
                         IF r.outcome = "write" THEN r.config ELSE NoFile]
        /\ err' = [err EXCEPT ![c] = IF r.outcome = "throw" THEN "TypeError" ELSE "none"]
        /\ pc' = [pc EXCEPT ![c] = IF r.outcome = "write" THEN "write" ELSE "release"]
  /\ UNCHANGED <<files, consent, op, attempt, outcome, counters, history, opens,
                 blocked, others>>

\* writeJsonAtomic: the temporary file written and renamed over hooks.json
WriteOk(c) ==
  /\ pc[c] = "write"
  /\ hooksFile' = pending[c]
  /\ pending' = [pending EXCEPT ![c] = NoFile]
  /\ pc' = [pc EXCEPT ![c] = "release"]
  /\ UNCHANGED <<lockFile, scripts, wsFiles, consent, op, attempt, err, outcome,
                 counters, history, lockHistory, others>>

\* writeJsonAtomic fails (mkdir, writeFile or rename throws an error with
\* this code): the temporary file is unlinked and the error rethrown
WriteFails(c, code) ==
  /\ pc[c] = "write"
  /\ writeFailures < MaxWriteFailures
  /\ writeFailures' = writeFailures + 1
  /\ err' = [err EXCEPT ![c] = code]
  /\ pending' = [pending EXCEPT ![c] = NoFile]
  /\ pc' = [pc EXCEPT ![c] = "release"]
  /\ UNCHANGED <<files, consent, op, attempt, outcome, opsStarted, history,
                 lockHistory, others>>

ReleaseOnSuccessOnly(lock, e) == IF e = "none" THEN NoOne ELSE lock

\* finally { handle.close(); fs.unlink(lockPath) }, whatever the action threw
ReleaseLock(lock, e) == NoOne

\* the finally block, then the return, or the catch of what the action threw
Release(c) ==
  /\ pc[c] = "release"
  /\ lockFile' = ReleaseLock(lockFile, err[c])
  /\ blocked' = [d \in Callers |-> blocked[d] /\ lockFile' # NoOne]
  /\ err' = [err EXCEPT ![c] = "none"]
  /\ IF err[c] = "EEXIST" /\ RetriesLeft(attempt[c])
       THEN /\ attempt' = [attempt EXCEPT ![c] = @ + 1]
            /\ pc' = [pc EXCEPT ![c] = "open"]
            /\ UNCHANGED outcome
       ELSE /\ outcome' = [outcome EXCEPT ![c] =
                             CASE err[c] = "none" -> "ok"
                               [] err[c] = "EEXIST" -> "timeout"
                               [] OTHER -> "error"]
            /\ pc' = [pc EXCEPT ![c] = "lockdone"]
            /\ UNCHANGED attempt
  /\ UNCHANGED <<hooksFile, scripts, wsFiles, consent, op, pending, counters,
                 history, opens, ran, others>>

\* ensureCursorHook after upsertHooksJson: on success ensureGitignoreEntries
\* (autoIgnoreGitFiles at its default, true) and syncWorkspaceConfig, then
\* return true; the catch of an error returns existingConfig.hasHookCommand
EnsureFinish(c) ==
  /\ pc[c] = "lockdone" /\ op[c] = "ensure"
  /\ wsFiles' = (wsFiles \/ outcome[c] = "ok")
  /\ Return(c)
  /\ UNCHANGED <<hooksFile, lockFile, scripts, consent, pending, err, counters,
                 history, others>>

\* setWorkspaceHookEnabled(false) after removeHookCommand
ToggleOffFinish(c) ==
  /\ pc[c] = "lockdone" /\ op[c] = "toggleOff"
  /\ Return(c)
  /\ UNCHANGED <<files, consent, pending, err, counters, history, others>>

\* removeWorkspaceHookOnDeactivate after removeHookCommand returned or threw:
\* removeHookScriptIfOwned
DeactivateFinish(c) ==
  /\ pc[c] = "lockdone" /\ op[c] = "deactivate"
  /\ scripts' = [s \in HOOK_SCRIPTS |-> RemoveHookScriptIfOwned(scripts[s])]
  /\ Return(c)
  /\ UNCHANGED <<hooksFile, lockFile, wsFiles, consent, pending, err, counters,
                 history, others>>

NoScripts == [s \in HOOK_SCRIPTS |-> "absent"]
OldScripts ==
  [s \in HOOK_SCRIPTS |->
     IF s = "after-agent-response.js" THEN "bundled" ELSE "oldManaged"]

\* the workspaces the concurrent specification starts from: hooks.json and
\* the scripts of .cursor/hooks
InitWorkspaces ==
  {<<NoFile, NoScripts>>,
   <<Json("absent", "undef", UndefList, UndefList), NoScripts>>,
   <<Json("1", "obj", ListOf(<<"U1">>), ListOf(<<"U2">>)), NoScripts>>,
   <<Json("1", "obj", ListOf(<<HOOK_COMMAND_AFTER>>), ListOf(<<HOOK_COMMAND_BEFORE>>)),
     OldScripts>>,
   <<Json("2", "obj", ListOf(<<"U1", HOOK_COMMAND_AFTER>>), UndefList), OldScripts>>,
   <<Json("1", "obj", ListOf(<<HOOK_COMMAND_AFTER>>), ListOf(<<NullEntry>>)),
     OldScripts>>,
   <<Json("1", "obj", BadList, ListOf(<<HOOK_COMMAND_BEFORE>>)), OldScripts>>,
   <<Garbage, OldScripts>>,
   <<Garbage, NoScripts>>}

ConStart(f, sc) ==
  /\ hooksFile = f /\ hooksFile0 = f
  /\ lockFile = NoOne
  /\ scripts = sc
  /\ enabledKey = FALSE /\ skipKey = FALSE
  /\ wsFiles = FALSE
  /\ pc = [c \in Callers |-> "idle"]
  /\ op = [c \in Callers |-> "none"]
  /\ attempt = [c \in Callers |-> 0]
  /\ pending = [c \in Callers |-> NoFile]
  /\ err = [c \in Callers |-> "none"]
  /\ outcome = [c \in Callers |-> "none"]
  /\ opsStarted = 0 /\ writeFailures = 0
  /\ intended = 0
  /\ opens = [c \in Callers |-> 0]
  /\ ran = [c \in Callers |-> 0]
  /\ blocked = [c \in Callers |-> FALSE]

Init ==
  /\ \E w \in InitWorkspaces : ConStart(w[1], w[2])
  /\ seqFile = NoFile /\ seqLog = <<>>
  /\ HookStart(NoStartFile)
  /\ PureStart

Next ==
  \/ \E c \in Callers, allowPrompt \in BOOLEAN : StartEnsure(c, allowPrompt)
  \/ \E c \in Callers, choice \in {"Enable notifications", "Not now", "dismissed"} :
       Prompt(c, choice)
  \/ \E c \in Callers : CopyHooks(c)
  \/ \E c \in Callers : StartToggleOff(c)
  \/ \E c \in Callers : StartDeactivate(c)
  \/ \E c \in Callers : LockOpen(c)
  \/ \E c \in Callers : Act(c)
  \/ \E c \in Callers : WriteOk(c)
  \/ \E c \in Callers, code \in {"EEXIST", "EIO"} : WriteFails(c, code)
  \/ \E c \in Callers : Release(c)
  \/ \E c \in Callers : EnsureFinish(c)
  \/ \E c \in Callers : ToggleOffFinish(c)
  \/ \E c \in Callers : DeactivateFinish(c)

Spec == Init /\ [][Next]_vars

\* the callers run ensureCursorHook only
NextEnsure ==
  \/ \E c \in Callers, allowPrompt \in BOOLEAN : StartEnsure(c, allowPrompt)
  \/ \E c \in Callers, choice \in {"Enable notifications", "Not now", "dismissed"} :
       Prompt(c, choice)
  \/ \E c \in Callers : CopyHooks(c)
  \/ \E c \in Callers : LockOpen(c)
  \/ \E c \in Callers : Act(c)
  \/ \E c \in Callers : WriteOk(c)
  \/ \E c \in Callers, code \in {"EEXIST", "EIO"} : WriteFails(c, code)
  \/ \E c \in Callers : Release(c)
  \/ \E c \in Callers : EnsureFinish(c)

SpecEnsure == Init /\ [][NextEnsure]_vars

(***************************************************************************)
(* Properties of the concurrent specifications.                            *)
(***************************************************************************)
AllIdle == \A c \in Callers : pc[c] = "idle"

HasBothCommands(f) ==
  /\ f.kind = "json"
  /\ HOOK_COMMAND_AFTER \in Range(Items(f.after))
  /\ HOOK_COMMAND_BEFORE \in Range(Items(f.before))

\* C1: when callers run ensureCursorHook concurrently on a hooks.json that is
\* valid at the start and no write fails, then once all have returned the
\* registry is valid (no command twice in a list) and, if any of them reached
\* upsertHooksJson, holds the afterAgentResponse and the beforeSubmitPrompt
\* command.
C1_ConcurrentEnsure ==
  (AllIdle /\ SpecValid(hooksFile0) /\ writeFailures = 0)
    => /\ SpecValid(hooksFile)
       /\ intended > 0 => HasBothCommands(hooksFile)

\* two ensureCursorHook calls reached upsertHooksJson on a workspace without
\* hooks.json and have returned
C1_Witness ==
  /\ AllIdle /\ intended = 2 /\ writeFailures = 0
  /\ hooksFile0 = NoFile
  /\ HasBothCommands(hooksFile)

\* C2: at most one caller is inside the action of withHooksJsonLock, that
\* caller's fs.open created the lock file, and hooks.json changes only by the
\* write of the caller that holds the lock.
C2_MutualExclusion ==
  /\ [](/\ Cardinality({c \in Callers : Holding(c)}) <= 1
        /\ \A c \in Callers : Holding(c) => lockFile = c)
  /\ [][hooksFile' # hooksFile
          => \E c \in Callers :
               /\ pc[c] = "write" /\ lockFile = c
               /\ op[c] \in {"ensure", "toggleOff", "deactivate"}
               /\ hooksFile' = pending[c]]_vars

\* a caller is about to write while the other has found the lock file there
C2_Witness ==
  \E c, d \in Callers : pc[c] = "write" /\ pc[d] = "open" /\ attempt[d] > 0

C4_TimeoutWhenBlocked ==
  \A c \in Callers :
    blocked[c]
      => /\ ran[c] = 0 /\ ~Holding(c)
         /\ pc[c] = "lockdone"
              => /\ outcome[c] = "timeout"
                 /\ opens[c] = LOCK_MAX_RETRIES + 1
                 /\ attempt[c] = LOCK_MAX_RETRIES
                 /\ lockFile \notin {NoOne, c}

\* a call has timed out while the other caller held the lock throughout
C4_Witness ==
  \E c \in Callers : pc[c] = "lockdone" /\ blocked[c] /\ outcome[c] = "timeout"

\* C7: starting from lists without a repeated command, no list of hooks.json
\* ever holds a command twice, whatever upsertHooksJson and
\* removeHookCommand runs the callers make.
C7_UniqueCommands ==
  (NoDup(Items(hooksFile0.after)) /\ NoDup(Items(hooksFile0.before)))
    => NoDup(Items(hooksFile.after)) /\ NoDup(Items(hooksFile.before))

\* two upsertHooksJson runs on a list that held a user command
C7_Witness ==
  /\ AllIdle /\ intended = 2
  /\ hooksFile0.after = ListOf(<<"U1">>)
  /\ hooksFile.after = ListOf(<<"U1", HOOK_COMMAND_AFTER>>)

\* C9: while hooks.json cannot be read as valid, no step of an ensure or a
\* teardown changes hooks.json, a hook script, .gitignore or the workspace
\* config.
C9_InvalidAborts ==
  [][~ReadHooksConfig(hooksFile).valid
       => UNCHANGED <<hooksFile, scripts, wsFiles>>]_vars

\* C12: a step of ensureCursorHook that creates or rewrites a hook script, or
\* writes the tool's commands into hooks.json, is taken only when the
\* workspace's consent is stored (enabledPrompt: an "Enable notifications"
\* answer, now or remembered, or a registry that held the command already),
\* whoever called ensureCursorHook.
C12_ConsentGated ==
  [][\A c \in Callers :
       (/\ op[c] = "ensure" /\ pc'[c] # pc[c]
        /\ (scripts' # scripts \/ hooksFile' # hooksFile))
         => enabledKey]_vars

\* C15: a script of .cursor/hooks goes away only in the last step of a
\* deactivation teardown and only when it was byte-identical to the bundled
\* script; no step of a toggle-off changes a script.
C15_OnlyOwnedScriptsDeleted ==
  [][/\ \A s \in HOOK_SCRIPTS :
          (scripts[s] # "absent" /\ scripts'[s] = "absent")
            => /\ scripts[s] = "bundled"
               /\ \E c \in Callers :
                    op[c] = "deactivate" /\ pc[c] = "lockdone" /\ pc'[c] = "idle"
     /\ \A c \in Callers :
          (op[c] = "toggleOff" /\ pc'[c] # pc[c]) => scripts' = scripts]_vars

\* a teardown has deleted the bundled-identical script and kept the one the
\* user changed
C15_Witness ==
  /\ AllIdle
  /\ scripts["after-agent-response.js"] = "absent"
  /\ scripts["before-submit-prompt.js"] \in {"oldManaged", "merged"}

(***************************************************************************)
(* Sequential specification: upsertHooksJson and removeHookCommand run one *)
(* after the other on one hooks.json, the lock free and every write        *)
(* succeeding.  seqLog records each run: the operation, the content        *)
(* before and after, and whether hooks.json was written.                   *)
(***************************************************************************)

SeqRun(name, r) ==
  /\ Len(seqLog) < MaxSeqOps
  /\ seqFile' = IF r.outcome = "write" THEN r.config ELSE seqFile
  /\ seqLog' = Append(seqLog, [op |-> name, pre |-> seqFile,
                               post |-> seqFile', outcome |-> r.outcome])
  /\ UNCHANGED <<conVars, hookVars, pureVars>>

SeqUpsert == SeqRun("upsert", UpsertAction(seqFile))
SeqRemove == SeqRun("remove", RemoveAction(seqFile))

SeqInit ==
  /\ seqFile \in Registries(MaxLen)
  /\ seqLog = <<>>
  /\ ConStart(NoFile, NoScripts)
  /\ HookStart(NoStartFile)
  /\ PureStart

SeqNext == SeqUpsert \/ SeqRemove

SpecSeq == SeqInit /\ [][SeqNext]_vars

\* the items of a list that are not the tool's commands, in order
WithoutToolCommands(s) == SelectSeq(s, LAMBDA e : e \notin HOOK_COMMANDS)

\* C5: running upsertHooksJson twice leaves hooks.json as the first run left
\* it (the second run writes nothing), and likewise removeHookCommand twice.
C5_Idempotent ==
  \A i \in 1..(Len(seqLog) - 1) :
    seqLog[i].op = seqLog[i + 1].op
      => /\ seqLog[i + 1].post = seqLog[i].post
         /\ seqLog[i + 1].outcome # "write"

\* a valid registry on which the first run wrote, followed by a second run of
\* the same operation
C5_Witness ==
  /\ Len(seqLog) = 2
  /\ seqLog[1].op = seqLog[2].op
  /\ SpecValid(seqLog[1].pre)
  /\ seqLog[1].outcome = "write"
  /\ seqLog[1].pre.kind = "json"

\* C6: on a valid registry, upsertHooksJson followed by removeHookCommand
\* leaves in each event's list exactly the original entries that are not the
\* tool's commands, in their original order.
C6_RoundTrip ==
  \A i \in 1..(Len(seqLog) - 1) :
    (/\ seqLog[i].op = "upsert" /\ seqLog[i + 1].op = "remove"
     /\ SpecValid(seqLog[i].pre))
      => /\ Items(seqLog[i + 1].post.after)
              = WithoutToolCommands(Items(seqLog[i].pre.after))
         /\ Items(seqLog[i + 1].post.before)
              = WithoutToolCommands(Items(seqLog[i].pre.before))

\* a round trip over lists that hold two user commands around a tool command
C6_Witness ==
  /\ Len(seqLog) = 2
  /\ seqLog[1].op = "upsert" /\ seqLog[2].op = "remove"
  /\ SpecValid(seqLog[1].pre)
  /\ seqLog[1].pre.after = ListOf(<<"U2", "U1">>)
  /\ seqLog[1].pre.before = ListOf(<<"U1", "CA">>)
  /\ seqLog[2].outcome = "write"

\* hooks.json exists and its `hooks` value is not a mapping from event name
\* to a list of {command: string} objects
IllShaped(f) ==
  /\ f.kind = "json"
  /\ \/ f.hooks = "bad"
     \/ ~ShapeOk(f.after)
     \/ ~ShapeOk(f.before)

\* C8: on a hooks.json whose `hooks` value is ill-shaped (for any event),
\* upsertHooksJson and removeHookCommand write nothing and leave the content
\* as it was.
C8_IllShapedIsNoop ==
  \A i \in 1..Len(seqLog) :
    IllShaped(seqLog[i].pre)
      => seqLog[i].post = seqLog[i].pre /\ seqLog[i].outcome # "write"

(***************************************************************************)
(* Hook specification: the editor runs before-submit-prompt and            *)
(* after-agent-response as separate processes, each with a payload; they   *)
(* meet in the start-time file.                                            *)
(***************************************************************************)
FirstIdleHook(p) == hpc[p] = "idle" /\ \A q \in HookProcs : q < p => hpc[q] # "idle"

\* the editor starts a hook process
StartHook(p) ==
  /\ FirstIdleHook(p) /\ hookRuns < MaxHookRuns
  /\ hookRuns' = hookRuns + 1

\* the process reads the start-time file
NoteRead(p) ==
  /\ sawPartial' = [sawPartial EXCEPT ![p] = (startFile.kind = "partial")]
  /\ overlap' = (overlap \/ \E q \in HookProcs \ {p} : hpc[q] # "idle")

\* before-hook, recordStart with a payload that has no generation id (or no
\* payload at all): nothing is read or written
RecordStartNoId(p) ==
  /\ StartHook(p)
  /\ UNCHANGED <<startFile, now, hpc, hdata, sawPartial, hjob, hret, hookHistory,
                 seqVars, conVars, pureVars>>

\* before-hook, recordStart up to writeJsonFile: the table read (an empty one
\* when readJsonFile returns null) with data[generationId] = Date.now()
RecordStart(p, g) ==
  /\ StartHook(p)
  /\ NoteRead(p)
  /\ hdata' = [hdata EXCEPT ![p] = [ReadJsonFile(startFile).table EXCEPT ![g] = now]]
  /\ hjob' = [hjob EXCEPT ![p] = [kind |-> "before", gen |-> g, startedAt |-> NoEntry]]
  /\ hpc' = [hpc EXCEPT ![p] = "open"]
  /\ UNCHANGED <<startFile, now, hret, live, twice, seqVars, conVars, pureVars>>

KeepEntry(table, g) == table

\* delete startData[generationId]
DeleteEntry(table, g) == [table EXCEPT ![g] = NoEntry]

\* after-hook, getDurationMs up to writeJsonFile: null when the file does not
\* parse or has no finite entry for the id, else the entry deleted
GetDurationMs(p, g) ==
  /\ StartHook(p)
  /\ NoteRead(p)
  /\ LET r == ReadJsonFile(startFile)
     IN IF r.ok /\ r.table[g] # NoEntry
          THEN /\ hdata' = [hdata EXCEPT ![p] = DeleteEntry(r.table, g)]
               /\ hjob' = [hjob EXCEPT ![p] =
                             [kind |-> "after", gen |-> g, startedAt |-> r.table[g]]]
               /\ hpc' = [hpc EXCEPT ![p] = "open"]
               /\ UNCHANGED hret
          ELSE /\ hret' = [n |-> hret.n + 1, got |-> hret.got, gen |-> g,
                           dur |-> NoEntry]
               /\ UNCHANGED <<hdata, hjob, hpc>>
  /\ UNCHANGED <<startFile, now, live, twice, seqVars, conVars, pureVars>>

\* writeJsonFile, fs.writeFile opening the file: flag "w" truncates it
WriteFileOpen(p) ==
  /\ hpc[p] = "open"
  /\ startFile' = PartialFile
  /\ hpc' = [hpc EXCEPT ![p] = "data"]
  /\ UNCHANGED <<now, hdata, hookRuns, sawPartial, hjob, hret, hookHistory,
                 seqVars, conVars, pureVars>>

RawDifference(startedAt, t) == t - startedAt

\* Math.max(0, Date.now() - startedAt)
DurationSince(startedAt, t) == IF t - startedAt > 0 THEN t - startedAt ELSE 0

\* fs.writeFile writing the serialized table and closing, and the hook's
\* return: getDurationMs returns the duration.  While another process has
\* the file open for writing too, the bytes of the two may mix.
WriteFileData(p, mixed) ==
  /\ hpc[p] = "data"
  /\ mixed => \E q \in HookProcs \ {p} : hpc[q] = "data"
  /\ startFile' = IF mixed THEN PartialFile ELSE TableFile(hdata[p])
  /\ hpc' = [hpc EXCEPT ![p] = "idle"]
  /\ hdata' = [hdata EXCEPT ![p] = EmptyTable]
  /\ hjob' = [hjob EXCEPT ![p] = NoJob]
  /\ LET g == hjob[p].gen
     IN IF hjob[p].kind = "after"
          THEN /\ hret' = [n |-> hret.n + 1, got |-> hret.got + 1, gen |-> g,
                           dur |-> DurationSince(hjob[p].startedAt, now)]
               /\ twice' = (twice \/ live[g] = NoEntry)
               /\ live' = [live EXCEPT ![g] = NoEntry]
          ELSE /\ live' = IF mixed THEN live ELSE [live EXCEPT ![g] = hdata[p][g]]
               /\ UNCHANGED <<hret, twice>>
  /\ UNCHANGED <<now, hookRuns, sawPartial, overlap, seqVars, conVars, pureVars>>

Tick ==
  /\ now < MaxClock
  /\ now' = now + 1
  /\ UNCHANGED <<startFile, hpc, hdata, hookRuns, sawPartial, hjob, hret, hookHistory,
                 seqVars, conVars, pureVars>>

InitStartFiles ==
  {NoStartFile, TableFile(EmptyTable), TableFile([EmptyTable EXCEPT !["g1"] = 0]),
   TableFile([EmptyTable EXCEPT !["g1"] = 1])}

HookInit ==
  /\ \E f \in InitStartFiles : HookStart(f)
  /\ ConStart(NoFile, NoScripts)
  /\ seqFile = NoFile /\ seqLog = <<>>
  /\ PureStart

HookNext ==
  \/ \E p \in HookProcs : RecordStartNoId(p)
  \/ \E p \in HookProcs, g \in Gens : RecordStart(p, g)
  \/ \E p \in HookProcs, g \in Gens : GetDurationMs(p, g)
  \/ \E p \in HookProcs : WriteFileOpen(p)
  \/ \E p \in HookProcs, mixed \in BOOLEAN : WriteFileData(p, mixed)
  \/ Tick

SpecHooks == HookInit /\ [][HookNext]_vars

\* C10: no read of a persisted JSON document meets a file that is written in
\* part; what a reader gets is the complete content before or after a write.
C10_NoPartialRead ==
  \A p \in HookProcs : ~sawPartial[p]

AllHooksIdle == \A p \in HookProcs : hpc[p] = "idle"

\* C17: when hook processes run one after the other, a getDurationMs(g) on a
\* table with an entry T for g returns max(0, now - T) and leaves a
\* persisted table without an entry for g, and a getDurationMs(g) on a table
\* whose entry for g was consumed (or never recorded) returns null.
C17_ConsumeDuration ==
  [][(hret'.n # hret.n /\ ~overlap')
       => LET g == hret'.gen
          IN IF live[g] # NoEntry
               THEN /\ hret'.dur = (IF now > live[g] THEN now - live[g] ELSE 0)
                    /\ startFile'.kind = "table"
                    /\ startFile'.table[g] = NoEntry
               ELSE /\ hret'.dur = NoEntry
                    /\ hret'.got = hret.got]_vars

\* two getDurationMs calls for g1, one after the other: the first obtained a
\* duration, the second null
C17_Witness ==
  /\ ~overlap /\ AllHooksIdle
  /\ hookRuns = 2 /\ hret.n = 2 /\ hret.got = 1
  /\ hret.gen = "g1" /\ hret.dur = NoEntry
  /\ startFile = TableFile(EmptyTable)

\* the persisted table holds no entry that was consumed
NoEntryReappears ==
  startFile.kind = "table"
    => \A g \in Gens : startFile.table[g] # NoEntry => live[g] # NoEntry

\* once the hooks have returned, the persisted table holds every entry that
\* was recorded and not consumed
NoEntryLost ==
  AllHooksIdle
    => \A g \in Gens :
         live[g] # NoEntry => startFile.kind = "table" /\ startFile.table[g] = live[g]

\* C18 as stated: under any interleaving of before-hook and after-hook
\* processes, no entry yields a duration twice, no consumed entry is back in
\* the table, and no recorded entry is lost.
C18_ExactlyOnce ==
  ~twice /\ NoEntryReappears /\ NoEntryLost

\* C18 amended: the same, for hook processes that run one after the other
\* (none starts between another's read of the table and the end of its
\* write).
C18_SerialExactlyOnce ==
  ~overlap => C18_ExactlyOnce

\* three hooks one after the other: g2 recorded, the entry of g1 consumed,
\* and the entry of g2 still in the table
C18_Witness ==
  /\ ~overlap /\ AllHooksIdle
  /\ hookRuns = 3 /\ hret.got = 1 /\ hret.gen = "g1"
  /\ live["g1"] = NoEntry /\ live["g2"] # NoEntry
  /\ startFile = TableFile(live)

(***************************************************************************)
(* Atomic-write specification: writeJsonAtomic (hooks.json) and            *)
(* writeJsonFileAtomic (the workspace config), which are the same code, as *)
(* steps: fs.mkdir, fs.writeFile of the temporary file, fs.rename, and the *)
(* catch block.  Each of the three steps may throw.                        *)
(***************************************************************************)
WriteDocs == {"d1", "d2"}

\* the call begins: the payload is serialized and tempPath chosen
WriteJsonAtomic(payload) ==
  /\ wpc = "idle" /\ wCalls < MaxWrites
  /\ wCalls' = wCalls + 1
  /\ wPayload' = payload
  /\ wDest0' = wDest
  /\ wFailedAt' = "none"
  /\ wpc' = "mkdir"
  /\ UNCHANGED <<wDest, wTemp>>

\* fs.mkdir(path.dirname(filePath), {recursive: true})
WriteMkdir(ok) ==
  /\ wpc = "mkdir"
  /\ wpc' = IF ok THEN "writeFile" ELSE "catch"
  /\ wFailedAt' = IF ok THEN wFailedAt ELSE "mkdir"
  /\ UNCHANGED <<wDest, wTemp, wPayload, wCalls, wDest0>>

\* fs.writeFile(tempPath, serialized): the whole document, or an error with
\* no file created, or an error with part of the document written
WriteTempFile(result) ==
  /\ wpc = "writeFile"
  /\ wTemp' = CASE result = "ok" -> wPayload
                [] result = "partial" -> "partial"
                [] OTHER -> wTemp
  /\ wpc' = IF result = "ok" THEN "rename" ELSE "catch"
  /\ wFailedAt' = IF result = "ok" THEN wFailedAt ELSE "writeFile"
  /\ UNCHANGED <<wDest, wPayload, wCalls, wDest0>>

\* fs.rename(tempPath, filePath): the destination replaced in one step and
\* the function returns, or an error with both files as they were
WriteRename(ok) ==
  /\ wpc = "rename"
  /\ IF ok
       THEN /\ wDest' = wTemp
            /\ wTemp' = "absent"
            /\ wpc' = "returned"
            /\ UNCHANGED wFailedAt
       ELSE /\ wpc' = "catch"
            /\ wFailedAt' = "rename"
            /\ UNCHANGED <<wDest, wTemp>>
  /\ UNCHANGED <<wPayload, wCalls, wDest0>>

UnlinkTempSkipped(temp) == temp

\* fs.unlink(tempPath).catch(() => undefined): the temporary file is gone
\* (the error of unlinking a file that is not there is swallowed)
UnlinkTemp(temp) == "absent"

\* catch (error) { unlink; logWarn; throw error }
WriteCatch ==
  /\ wpc = "catch"
  /\ wTemp' = UnlinkTemp(wTemp)
  /\ wpc' = "thrown"
  /\ UNCHANGED <<wDest, wPayload, wCalls, wDest0, wFailedAt>>

\* the caller has the result of the call, or its error
WriteDone ==
  /\ wpc \in {"returned", "thrown"}
  /\ wpc' = "idle"
  /\ UNCHANGED <<wDest, wTemp, wPayload, wCalls, wDest0, wFailedAt>>

WriteInit ==
  /\ \E d \in WriteDocs \cup {"none"} : WriteStart(d)
  /\ CopyStart(<<>>, AbsentScript)
  /\ SettingsStart([w \in Folders |-> NoFile])
  /\ RelayStart(NoConfigFile, 0)
  /\ AuxStart
  /\ ConStart(NoFile, NoScripts)
  /\ seqFile = NoFile /\ seqLog = <<>>
  /\ HookStart(NoStartFile)

notWrite == <<seqVars, hookVars, conVars, copyVars, settingsVars, relayVars, auxVars>>

WriteNext ==
  \/ \E payload \in WriteDocs : WriteJsonAtomic(payload) /\ UNCHANGED notWrite
  \/ \E ok \in BOOLEAN : WriteMkdir(ok) /\ UNCHANGED notWrite
  \/ \E result \in {"ok", "partial", "nothing"} :
       WriteTempFile(result) /\ UNCHANGED notWrite
  \/ \E ok \in BOOLEAN : WriteRename(ok) /\ UNCHANGED notWrite
  \/ WriteCatch /\ UNCHANGED notWrite
  \/ WriteDone /\ UNCHANGED notWrite

SpecWrite == WriteInit /\ [][WriteNext]_vars

\* C11: when a step of the atomic write (mkdir, writeFile of the temporary
\* file, rename) fails, the call ends by throwing, never by returning; once it
\* has thrown the temporary file does not exist and the destination has the
\* content it had when the call began.
C11_FailedWriteCleansUp ==
  /\ wFailedAt # "none" => wpc \in {"catch", "thrown", "idle"} /\ wDest = wDest0
  /\ wpc = "thrown" => wFailedAt # "none" /\ wTemp = "absent" /\ wDest = wDest0
  /\ wpc = "returned" => wFailedAt = "none" /\ wTemp = "absent" /\ wDest = wPayload
  /\ wpc = "idle" => wTemp = "absent"

\* a call on an existing destination has thrown after fs.writeFile left a
\* temporary file written in part
C11_Witness ==
  /\ wpc = "thrown" /\ wFailedAt = "writeFile"
  /\ wDest0 \in WriteDocs /\ wPayload # wDest0

(***************************************************************************)
(* Script-copy specification: copyHookIfMissing on the text of the bundled *)
(* script and of the destination.  A text is a sequence of characters in   *)
(* which each marker line is one element.                                  *)
(***************************************************************************)
MANAGED_BLOCK_START == "S"
MANAGED_BLOCK_END == "E"
ScriptChars == {MANAGED_BLOCK_START, MANAGED_BLOCK_END, "x", "y"}

\* content.indexOf(marker, from), positions counted from 1 and 0 for the -1
\* of "not found"
RECURSIVE IndexOf(_, _, _)
IndexOf(content, marker, from) ==
  IF from > Len(content) THEN 0
  ELSE IF content[from] = marker THEN from
  ELSE IndexOf(content, marker, from + 1)

ExtractWholeScript(content) == [ok |-> TRUE, text |-> content]

\* extractManagedBlock: null (ok FALSE) without a start marker or without an
\* end marker after it, else the text from the one through the other
ExtractManagedBlock(content) ==
  LET start == IndexOf(content, MANAGED_BLOCK_START, 1)
      end == IF start = 0 THEN 0 ELSE IndexOf(content, MANAGED_BLOCK_END, start)
  IN IF start = 0 \/ end = 0 THEN [ok |-> FALSE, text |-> <<>>]
     ELSE [ok |-> TRUE, text |-> SubSeq(content, start, end)]

ReplaceManagedBlockOrAppend(content, managedBlock) ==
  [ok |-> TRUE, text |-> content \o managedBlock]

\* replaceManagedBlock: null under the same conditions, else the content
\* with that region replaced by managedBlock
ReplaceManagedBlock(content, managedBlock) ==
  LET start == IndexOf(content, MANAGED_BLOCK_START, 1)
      end == IF start = 0 THEN 0 ELSE IndexOf(content, MANAGED_BLOCK_END, start)
  IN IF start = 0 \/ end = 0 THEN [ok |-> FALSE, text |-> <<>>]
     ELSE [ok |-> TRUE,
           text |-> SubSeq(content, 1, start - 1) \o managedBlock
                      \o SubSeq(content, end + 1, Len(content))]

\* copyHookIfMissing on texts: fs.copyFile with COPYFILE_EXCL when there is
\* no destination; else the merge, written only when it changes the text
CopyHookIfMissingText(src, dest) ==
  IF ~dest.exists THEN ScriptFile(src)
  ELSE IF src = dest.text THEN dest
  ELSE LET managedBlock == ExtractManagedBlock(src)
           merged == ReplaceManagedBlock(dest.text, managedBlock.text)
       IN IF ~managedBlock.ok \/ ~merged.ok THEN dest
          ELSE ScriptFile(merged.text)

CopyHook ==
  /\ ~cDone
  /\ cDest' = CopyHookIfMissingText(cSrc, cDest)
  /\ cDone' = TRUE
  /\ UNCHANGED <<cSrc, cDest0>>
  /\ UNCHANGED <<seqVars, hookVars, conVars, writeVars, settingsVars, relayVars, auxVars>>

CopyInit ==
  /\ \E src \in SeqsUpTo(ScriptChars, MaxSrcLen),
        dest \in {AbsentScript}
                   \cup {ScriptFile(t) : t \in SeqsUpTo(ScriptChars, MaxDestLen)} :
       CopyStart(src, dest)
  /\ WriteStart("none")
  /\ SettingsStart([w \in Folders |-> NoFile])
  /\ RelayStart(NoConfigFile, 0)
  /\ AuxStart
  /\ ConStart(NoFile, NoScripts)
  /\ seqFile = NoFile /\ seqLog = <<>>
  /\ HookStart(NoStartFile)

CopyNext == CopyHook

SpecCopy == CopyInit /\ [][CopyNext]_vars

\* the text holds a start marker and, somewhere after it, an end marker
HasMarkerPair(text) ==
  \E i, j \in 1..Len(text) :
    i < j /\ text[i] = MANAGED_BLOCK_START /\ text[j] = MANAGED_BLOCK_END

\* position of the first start marker, and of the first end marker after it
StartMarkerAt(text) ==
  CHOOSE i \in 1..Len(text) :
    /\ text[i] = MANAGED_BLOCK_START
    /\ \A k \in 1..(i - 1) : text[k] # MANAGED_BLOCK_START
EndMarkerAt(text) ==
  CHOOSE j \in (StartMarkerAt(text) + 1)..Len(text) :
    /\ text[j] = MANAGED_BLOCK_END
    /\ \A k \in (StartMarkerAt(text) + 1)..(j - 1) : text[k] # MANAGED_BLOCK_END

\* C13: when the bundled script or an existing destination lacks the marker
\* pair, copyHookIfMissing leaves the destination as it was, whatever its
\* content.
C13_UnmarkedUntouched ==
  (/\ cDone /\ cDest0.exists
   /\ (~HasMarkerPair(cSrc) \/ ~HasMarkerPair(cDest0.text)))
    => cDest = cDest0

\* the call returned on a destination without markers that differs from a
\* bundled script with markers
C13_Witness ==
  /\ cDone /\ cDest0.exists
  /\ HasMarkerPair(cSrc) /\ ~HasMarkerPair(cDest0.text)
  /\ Len(cDest0.text) > 1 /\ cDest0.text # cSrc

SetWorkspaceHookEnabled(f, enabled) ==
  LET r == IF enabled THEN UpsertAction(f) ELSE RemoveAction(f)
  IN IF ~ReadHooksConfig(f).valid THEN f
     ELSE IF r.outcome = "write" THEN r.config
     ELSE f

\* the command cursor-notifier.toggle: updateSetting("enabled", !enabled),
\* setWorkspaceHookEnabled for every folder, and syncWorkspaceConfig when
\* the setting is now true
ToggleCommand ==
  /\ sHandlers < MaxHandlers
  /\ sHandlers' = sHandlers + 1
  /\ sEnabled' = ~sEnabled
  /\ sHooks' = [w \in Folders |-> SetWorkspaceHookEnabled(sHooks[w], ~sEnabled)]
  /\ sSynced' = (sSynced \/ ~sEnabled)
  /\ UNCHANGED <<seqVars, hookVars, conVars, writeVars, copyVars, relayVars, auxVars>>

\* the user changes cursor-notifier.enabled in the settings; the handler of
\* onDidChangeConfiguration returns when the setting is false and calls
\* syncWorkspaceConfig for every folder when it is true
SettingsChanged(value) ==
  /\ sHandlers < MaxHandlers
  /\ sHandlers' = sHandlers + 1
  /\ sEnabled' = value
  /\ sSynced' = (sSynced \/ value)
  /\ UNCHANGED sHooks
  /\ UNCHANGED <<seqVars, hookVars, conVars, writeVars, copyVars, relayVars, auxVars>>

\* the hooks.json a folder may have when the extension is activated
FolderRegistries ==
  {NoFile,
   Json("1", "obj", ListOf(<<"U1">>), UndefList),
   Json("1", "obj", ListOf(<<HOOK_COMMAND_AFTER>>), ListOf(<<HOOK_COMMAND_BEFORE>>)),
   Json("1", "obj", ListOf(<<"U1", HOOK_COMMAND_AFTER>>), ListOf(<<HOOK_COMMAND_BEFORE, "U2">>)),
   Garbage}

SettingsInit ==
  /\ \E h \in [Folders -> FolderRegistries] : SettingsStart(h)
  /\ RelayStart(NoConfigFile, 0)
  /\ WriteStart("none")
  /\ CopyStart(<<>>, AbsentScript)
  /\ AuxStart
  /\ ConStart(NoFile, NoScripts)
  /\ seqFile = NoFile /\ seqLog = <<>>
  /\ HookStart(NoStartFile)

SettingsNext ==
  \/ ToggleCommand
  \/ \E value \in BOOLEAN : SettingsChanged(value)

SpecSettings == SettingsInit /\ [][SettingsNext]_vars

\* hooks.json holds a command of the tool
HasToolCommand(f) ==
  /\ f.kind = "json"
  /\ \/ HOOK_COMMAND_AFTER \in Range(Items(f.after))
     \/ HOOK_COMMAND_BEFORE \in Range(Items(f.before))

\* C16: once cursor-notifier.enabled has become false, by the toggle command
\* or by a change of the settings, and the handlers have finished, no
\* folder's hooks.json holds a command of the tool.
C16_DisabledMeansRemoved ==
  (~sEnabled /\ sHandlers > 0) => \A w \in Folders : ~HasToolCommand(sHooks[w])

(***************************************************************************)
(* Relay specification: maybeSendTelegram of the after-hook on the         *)
(* workspace config and a duration.  A text of the config is a sequence of *)
(* characters.                                                             *)
(***************************************************************************)
RECURSIVE TrimStart(_)
TrimStart(s) == IF s # <<>> /\ Head(s) = " " THEN TrimStart(Tail(s)) ELSE s

RECURSIVE TrimEnd(_)
TrimEnd(s) ==
  IF s # <<>> /\ s[Len(s)] = " " THEN TrimEnd(SubSeq(s, 1, Len(s) - 1)) ELSE s

NoTrim(s) == s

\* String.prototype.trim
Trim(s) == TrimEnd(TrimStart(s))

\* String(value || "")
StringOrEmpty(value) == IF value.present THEN value.text ELSE <<>>

DigitValue(c) ==
  CASE c = "0" -> 0 [] c = "1" -> 1 [] c = "2" -> 2 [] c = "3" -> 3 [] c = "4" -> 4
    [] c = "5" -> 5 [] c = "6" -> 6 [] c = "7" -> 7 [] c = "8" -> 8 [] c = "9" -> 9

IsDigit(c) == c \in {"0", "1", "2", "3", "4", "5", "6", "7", "8", "9"}

\* Number(match[i]) of a run of digits
RECURSIVE NumberOf(_)
NumberOf(ds) ==
  IF ds = <<>> THEN 0
  ELSE NumberOf(SubSeq(ds, 1, Len(ds) - 1)) * 10 + DigitValue(ds[Len(ds)])

ParseAlwaysNull(rawValue) == [ok |-> FALSE, seconds |-> 0]

\* parseMinDurationSeconds: null (ok FALSE) for a missing or blank value and
\* for one that /^(\d+):([0-5]?\d)$/ does not match, else minutes * 60 + seconds
ParseMinDurationSeconds(rawValue) ==
  LET value == Trim(StringOrEmpty(rawValue))
      colons == {i \in 1..Len(value) : value[i] = ":"}
      colon == CHOOSE i \in colons : TRUE
      minutes == SubSeq(value, 1, colon - 1)
      seconds == SubSeq(value, colon + 1, Len(value))
      null == [ok |-> FALSE, seconds |-> 0]
  IN IF ~rawValue.present \/ value = <<>> THEN null
     ELSE IF Cardinality(colons) # 1 THEN null
     ELSE IF \/ minutes = <<>>
             \/ \E i \in 1..Len(minutes) : ~IsDigit(minutes[i])
             \/ Len(seconds) \notin {1, 2}
             \/ \E i \in 1..Len(seconds) : ~IsDigit(seconds[i])
             \/ (Len(seconds) = 2 /\ DigitValue(seconds[1]) > 5)
          THEN null
     ELSE [ok |-> TRUE, seconds |-> NumberOf(minutes) * 60 + NumberOf(seconds)]

NotAboveMinimum(durationMs, minDurationSeconds) ==
  durationMs <= minDurationSeconds * 1000

\* durationMs / 1000 < minDurationSeconds
BelowMinimum(durationMs, minDurationSeconds) ==
  durationMs < minDurationSeconds * 1000

\* maybeSendTelegram: the number of requests it sends, one for the message
\* and one more (at least) for the full response when that is included
MaybeSendTelegram(config, durationMs) ==
  LET telegram == IF config.kind = "json" /\ config.hasTelegram
                    THEN config ELSE NoConfigFile
      botToken == Trim(StringOrEmpty(telegram.botToken))
      chatId == Trim(StringOrEmpty(telegram.chatId))
      minDurationSeconds == ParseMinDurationSeconds(telegram.minDuration)
      requests == IF telegram.includeFullResponse THEN 2 ELSE 1
  IN IF telegram.enabled # "true" THEN 0
     ELSE IF botToken = <<>> \/ chatId = <<>> THEN 0
     ELSE IF durationMs = NoEntry
            THEN IF minDurationSeconds.ok THEN 0 ELSE requests
     ELSE IF minDurationSeconds.ok
               /\ BelowMinimum(durationMs, minDurationSeconds.seconds)
            THEN 0
     ELSE requests

MaybeSend ==
  /\ ~rDone
  /\ rSent' = MaybeSendTelegram(rConfig, rDuration)
  /\ rDone' = TRUE
  /\ UNCHANGED <<rConfig, rDuration>>
  /\ UNCHANGED <<seqVars, hookVars, conVars, writeVars, copyVars, settingsVars, auxVars>>

TokenChars == {" ", "t"}
DurChars == {"0", "1", "3", "7", ":"}
TokenValues == {Missing} \cup {Text(t) : t \in SeqsUpTo(TokenChars, MaxTokenLen)}

TelegramConfig(enabled, botToken, chatId, minDuration, includeFullResponse) ==
  [kind |-> "json", hasTelegram |-> TRUE, enabled |-> enabled,
   botToken |-> botToken, chatId |-> chatId, minDuration |-> minDuration,
   includeFullResponse |-> includeFullResponse]

\* the config files the call may meet: none, an unparseable one, one without
\* `telegram`, every combination of enabled, botToken and chatId, and every
\* minDuration of up to n digits and colons with the relay configured
RelayConfigs(n) ==
  {NoConfigFile, [NoConfigFile EXCEPT !.kind = "garbage"],
   [NoConfigFile EXCEPT !.kind = "json"]}
  \cup {TelegramConfig(en, bot, chat, min, full) :
          en \in {"absent", "true", "false"}, bot \in TokenValues,
          chat \in TokenValues,
          min \in {Missing, Text(<<" ", "1", ":", "3", "0", " ">>)},
          full \in BOOLEAN}
  \cup {TelegramConfig("true", Text(<<"t">>), Text(<<"t">>), Text(min), FALSE) :
          min \in SeqsUpTo(DurChars, n)}

\* durationMs: null, or milliseconds around the thresholds
Durations == {NoEntry, 0, 999, 1000, 85000, 89999, 90000, 95000}

RelayInit ==
  /\ \E config \in RelayConfigs(MaxDurLen), durationMs \in Durations :
       RelayStart(config, durationMs)
  /\ WriteStart("none")
  /\ CopyStart(<<>>, AbsentScript)
  /\ SettingsStart([w \in Folders |-> NoFile])
  /\ AuxStart
  /\ ConStart(NoFile, NoScripts)
  /\ seqFile = NoFile /\ seqLog = <<>>
  /\ HookStart(NoStartFile)

RelayNext == MaybeSend

SpecRelay == RelayInit /\ [][RelayNext]_vars

\* the value is there and holds a character that is not blank
NonBlank(value) ==
  value.present /\ \E i \in 1..Len(value.text) : value.text[i] # " "

\* the config file parses, has telegram.enabled true and a botToken and a
\* chatId that are not blank
RelayConfigured(config) ==
  /\ config.kind = "json" /\ config.hasTelegram
  /\ config.enabled = "true"
  /\ NonBlank(config.botToken) /\ NonBlank(config.chatId)

\* C19: maybeSendTelegram sends a request only when the workspace config has
\* telegram.enabled true and botToken and chatId not empty after trimming;
\* with any other config, a missing or unparseable file included, it sends
\* none.
C19_NoSendUnlessConfigured ==
  (rDone /\ rSent > 0) => RelayConfigured(rConfig)

\* the relay is enabled with a chatId and a botToken of blanks only, and
\* nothing was sent
C19_Witness ==
  /\ rDone /\ rSent = 0
  /\ rConfig.enabled = "true"
  /\ rConfig.botToken = Text(<<" ", " ">>)
  /\ rConfig.chatId = Text(<<"t">>)
  /\ ~ParseMinDurationSeconds(rConfig.minDuration).ok

\* the text between its first and its last character that is not blank
Core(text) ==
  LET filled == {i \in 1..Len(text) : text[i] # " "}
  IN IF filled = {} THEN <<>>
     ELSE SubSeq(text, CHOOSE i \in filled : \A k \in filled : i <= k,
                 CHOOSE j \in filled : \A k \in filled : k <= j)

\* the number a run of digits denotes, by the weight of each position
RECURSIVE Weighted(_, _)
Weighted(ds, i) ==
  IF i > Len(ds) THEN 0
  ELSE DigitValue(ds[i]) * 10 ^ (Len(ds) - i) + Weighted(ds, i + 1)

\* the text is MM:SS, minutes and seconds in digits, the seconds in one or
\* two digits and below 60
IsMinSec(text, c) ==
  /\ c \in 2..(Len(text) - 1) /\ text[c] = ":"
  /\ \A i \in 1..Len(text) : i # c => IsDigit(text[i])
  /\ Len(text) - c <= 2
  /\ Weighted(SubSeq(text, c + 1, Len(text)), 1) < 60

\* C20: with the relay configured and a minimum duration MM:SS, a call with
\* a known duration d (ms) sends iff d >= 1000 * (60 * MM + SS).
C20_SendsIffAtLeastMinimum ==
  (/\ rDone /\ RelayConfigured(rConfig) /\ rDuration # NoEntry
   /\ rConfig.minDuration.present)
    => LET text == Core(rConfig.minDuration.text)
       IN \A c \in 1..Len(text) :
            IsMinSec(text, c)
              => (rSent > 0 <=>
                    rDuration >= 1000 * (60 * Weighted(SubSeq(text, 1, c - 1), 1)
                                           + Weighted(SubSeq(text, c + 1, Len(text)), 1)))

\* minDuration "01:30": nothing sent for 85000 ms
C20_Witness ==
  /\ rDone /\ RelayConfigured(rConfig)
  /\ rConfig.minDuration = Text(<<"0", "1", ":", "3", "0">>)
  /\ rDuration = 85000 /\ rSent = 0

\* the minDuration of the config is a minimum: MM:SS, blanks around it aside
MinimumConfigured(value) ==
  /\ value.present
  /\ \E c \in 1..Len(Core(value.text)) : IsMinSec(Core(value.text), c)

\* C21: with the relay configured and the duration unknown, a request is
\* sent iff minDuration is not a minimum (missing, empty, blank or not MM:SS);
\* with minDuration missing, empty or blank a request is sent whatever the
\* duration.
C21_UnknownDurationSendsIffNoMinimum ==
  (rDone /\ RelayConfigured(rConfig))
    => /\ rDuration = NoEntry
            => (rSent > 0 <=> ~MinimumConfigured(rConfig.minDuration))
       /\ (~rConfig.minDuration.present \/ Core(rConfig.minDuration.text) = <<>>)
            => rSent > 0

\* the duration is unknown and minDuration is "1:70", which is no MM:SS: the
\* message was sent
C21_Witness ==
  /\ rDone /\ RelayConfigured(rConfig)
  /\ rDuration = NoEntry
  /\ rConfig.minDuration = Text(<<"1", ":", "7", "0">>)
  /\ rSent = 1

(***************************************************************************)
(* The hook's message operations.  Each is specified on its own; the       *)
(* state of everything specified above stays as it starts.                 *)
(***************************************************************************)
base == <<seqVars, hookVars, conVars, writeVars, copyVars, settingsVars, relayVars>>

BaseStart ==
  /\ ConStart(NoFile, NoScripts)
  /\ seqFile = NoFile /\ seqLog = <<>>
  /\ HookStart(NoStartFile)
  /\ WriteStart("none")
  /\ CopyStart(<<>>, AbsentScript)
  /\ SettingsStart([w \in Folders |-> NoFile])
  /\ RelayStart(NoConfigFile, 0)

(***************************************************************************)
(* splitTextByLimit: a long text cut into chunks for the chat API.         *)
(***************************************************************************)
NEWLINE == "\n"
WhiteSpace == {" ", NEWLINE}

\* s.trim() is empty
IsBlank(s) == \A i \in 1..Len(s) : s[i] \in WhiteSpace

\* s.lastIndexOf(ch, fromIndex), indices from 0, -1 where there is none
LastIndexOf(s, ch, fromIndex) ==
  LET last == IF fromIndex < Len(s) - 1 THEN fromIndex ELSE Len(s) - 1
      found == {i \in 0..last : s[i + 1] = ch}
  IN IF found = {} THEN -1 ELSE CHOOSE i \in found : \A j \in found : j <= i

\* s.slice(from) and s.slice(0, to), indices from 0
SliceFrom(s, from) == SubSeq(s, from + 1, Len(s))
SliceTo(s, to) == SubSeq(s, 1, to)

SplitAtBreakOrStart(remaining, limit) ==
  LET atBreak == LastIndexOf(remaining, NEWLINE, limit)
      atBlank == LastIndexOf(remaining, " ", limit)
  IN IF atBreak >= 0 THEN atBreak
     ELSE IF atBlank > 0 THEN atBlank
     ELSE limit

\* the place of the cut: the last line break at or before limit, else the
\* last blank, else limit itself
SplitAt(remaining, limit) ==
  LET atBreak == LastIndexOf(remaining, NEWLINE, limit)
      atBlank == LastIndexOf(remaining, " ", limit)
  IN IF atBreak > 0 THEN atBreak
     ELSE IF atBlank > 0 THEN atBlank
     ELSE limit

DropFirstCharacter(remaining) == Tail(remaining)

\* the line break the cut was made at is not carried into the next chunk
DropLeadingBreak(remaining) ==
  IF remaining # <<>> /\ Head(remaining) = NEWLINE
  THEN Tail(remaining)
  ELSE remaining

\* the while loop and the push of what remains
RECURSIVE SplitLoop(_, _, _)
SplitLoop(remaining, limit, chunks) ==
  IF Len(remaining) > limit
  THEN LET splitAt == SplitAt(remaining, limit)
       IN SplitLoop(DropLeadingBreak(SliceFrom(remaining, splitAt)), limit,
                    Append(chunks, SliceTo(remaining, splitAt)))
  ELSE IF ~IsBlank(remaining) THEN Append(chunks, remaining) ELSE chunks

SplitTextByLimit(text, limit) ==
  IF IsBlank(text) THEN <<>>
  ELSE IF Len(text) <= limit THEN <<text>>
  ELSE SplitLoop(text, limit, <<>>)

Split ==
  /\ ~tDone
  /\ tChunks' = SplitTextByLimit(tText, tLimit)
  /\ tDone' = TRUE
  /\ UNCHANGED <<tText, tLimit>>
  /\ UNCHANGED <<base, auxButSplit>>

TextChars == {"a", "b", " ", NEWLINE}

SplitInit ==
  /\ \E text \in SeqsUpTo(TextChars, MaxTextLen), limit \in 1..MaxLimit :
       SplitStart(text, limit)
  /\ AuxStartButSplit
  /\ BaseStart

SplitNext == Split

SpecSplit == SplitInit /\ [][SplitNext]_vars

\* text is the chunks in their order, with nothing but white space between
\* them, before the first and after the last
RECURSIVE Rebuilds(_, _)
Rebuilds(text, chunks) ==
  IF chunks = <<>> THEN IsBlank(text)
  ELSE \E k \in 0..Len(text) :
         /\ IsBlank(SubSeq(text, 1, k))
         /\ k + Len(Head(chunks)) <= Len(text)
         /\ SubSeq(text, k + 1, k + Len(Head(chunks))) = Head(chunks)
         /\ Rebuilds(SubSeq(text, k + Len(Head(chunks)) + 1, Len(text)),
                     Tail(chunks))

\* C22: every chunk of splitTextByLimit(text, limit) has at most limit
\* characters, and the chunks in their order are the text again, short of
\* white space at the chunk boundaries only: no other character is lost.
C22_ChunksRebuildText ==
  tDone => /\ \A i \in 1..Len(tChunks) : Len(tChunks[i]) <= tLimit
           /\ Rebuilds(tText, tChunks)

\* a text of five letters and a line break cut at limit 2: three chunks, the
\* line break dropped at a boundary
C22_Witness ==
  /\ tDone
  /\ tLimit = 2
  /\ tText = <<"a", "b", NEWLINE, "a", "b">>
  /\ tChunks = << <<"a", "b">>, <<"a", "b">> >>

(***************************************************************************)
(* sendTelegramMessage: one message to the chat API.  A text is a sequence *)
(* of characters, the entity "&lt;" being one element of it.               *)
(***************************************************************************)
\* value.replace(/<\/?[^>]+>/g, ""): a tag is "<", one character or more
\* other than ">", and the first ">" after them
RECURSIVE StripTags(_)
StripTags(s) ==
  IF s = <<>> THEN <<>>
  ELSE IF /\ Head(s) = "<"
          /\ Len(s) >= 3
          /\ s[2] # ">"
          /\ \E j \in 3..Len(s) : s[j] = ">"
       THEN LET close == CHOOSE j \in 3..Len(s) :
                           /\ s[j] = ">"
                           /\ \A k \in 3..(j - 1) : s[k] # ">"
            IN StripTags(SubSeq(s, close + 1, Len(s)))
       ELSE <<Head(s)>> \o StripTags(Tail(s))

\* the entities put back as characters
Unescape(s) == [i \in 1..Len(s) |-> IF s[i] = "&lt;" THEN "<" ELSE s[i]]

StripTelegramHtml(value) == Unescape(StripTags(value))

RetryWheneverRich(parseMode, plainText) == parseMode # "none"

\* a failed request is made again as plain text: it had a parse mode, and
\* its text without the markup is not blank
ShouldRetry(parseMode, plainText) ==
  /\ parseMode # "none"
  /\ ~IsBlank(plainText)

\* one request and what sendTelegramMessage does with its outcome: "ok", an
\* answer that is not ok, or none (error, timeout, unreadable answer)
SendRequest(response) ==
  /\ mResult = "pending"
  /\ mAttempts' = Append(mAttempts,
                         [text |-> mText, parseMode |-> mParseMode,
                          ok |-> response = "ok"])
  /\ IF response = "ok"
     THEN /\ mResult' = "true"
          /\ UNCHANGED <<mText, mParseMode>>
     ELSE IF ShouldRetry(mParseMode, StripTelegramHtml(mText))
     THEN /\ mText' = StripTelegramHtml(mText)
          /\ mParseMode' = "none"
          /\ mResult' = "pending"
     ELSE /\ mResult' = "false"
          /\ UNCHANGED <<mText, mParseMode>>
  /\ UNCHANGED <<base, auxButSend>>

MsgChars == {"<", ">", "b", " ", "&lt;"}

SendInit ==
  /\ \E text \in SeqsUpTo(MsgChars, MaxMsgLen), parseMode \in {"HTML", "none"} :
       \* no caller passes an empty text, nor a blank one with a parse mode
       /\ text # <<>>
       /\ parseMode = "HTML" => ~IsBlank(text)
       /\ SendStart(text, parseMode)
  /\ AuxStartButSend
  /\ BaseStart

SendNext == \E response \in {"ok", "notOk", "none"} : SendRequest(response)

SpecSend == SendInit /\ [][SendNext]_vars

\* what the claims say of a finished call: requests made again after a
\* failure are plain text without the markup, and there is one at most
SendsAtMostTwice ==
  /\ Len(mAttempts) \in {1, 2}
  /\ Len(mAttempts) = 2
       => /\ mAttempts[1].parseMode = "HTML" /\ ~mAttempts[1].ok
          /\ mAttempts[2].parseMode = "none"
          /\ mAttempts[2].text = StripTelegramHtml(mAttempts[1].text)
  /\ mAttempts[1].parseMode = "none" => Len(mAttempts) = 1

\* C23 as stated: every failed request with a parse mode is made again once,
\* as plain text without the markup; a plain request is never made again; two
\* requests at most, the second plain.
C23_FailedRichSendRetriedOnce ==
  mResult # "pending"
    => /\ SendsAtMostTwice
       /\ (mAttempts[1].parseMode = "HTML" /\ ~mAttempts[1].ok)
            => Len(mAttempts) = 2

\* C23, amended: a failed request with a parse mode is made again once as
\* plain text without the markup, unless that text is blank: then it is not
\* made again; a plain request is never made again; two requests at most, the
\* second plain.
C23_FailedRichSendRetriedUnlessBlank ==
  mResult # "pending"
    => /\ SendsAtMostTwice
       /\ (mAttempts[1].parseMode = "HTML" /\ ~mAttempts[1].ok)
            => (Len(mAttempts) = 2
                  <=> ~IsBlank(StripTelegramHtml(mAttempts[1].text)))

\* "<b>b" failed as HTML and was sent again as the plain text "b"
C23_Witness ==
  /\ mResult = "true"
  /\ Len(mAttempts) = 2
  /\ mAttempts[1] = [text |-> <<"<", "b", ">", "b">>, parseMode |-> "HTML",
                     ok |-> FALSE]
  /\ mAttempts[2] = [text |-> <<"b">>, parseMode |-> "none", ok |-> TRUE]

(***************************************************************************)
(* The after-hook: notify(input), from the start-time file I/O through the *)
(* OS notification to the relay.                                           *)
(***************************************************************************)
PropagatesOnFailure(result) == result # "ok"

\* what leaves notifyMac and notifyWindows of a failed command: nothing, the
\* catch logs the error and returns
PropagatesFromNotify(result) == FALSE

\* getDurationMs: readJsonFile and writeJsonFile catch what the file system
\* throws, the duration is a number or null
GetDuration(result) ==
  /\ nPc = "duration"
  /\ nStartIo' = result
  /\ nPc' = "notify"
  /\ UNCHANGED <<nPlatform, nPlan, nNotified, nNotifyOutcome, nRelayEvaluated,
                 nPending, nRequests, nExit>>
  /\ UNCHANGED <<base, auxButNotify>>

\* notifyMac or notifyWindows on the two platforms that have one
NotifyOs(result) ==
  /\ nPc = "notify"
  /\ nPlatform \in {"darwin", "win32"}
  /\ nNotified' = nNotified + 1
  /\ nNotifyOutcome' = result
  /\ IF PropagatesFromNotify(result)
     THEN nPc' = "done" /\ nExit' = "failure"
     ELSE nPc' = "relay" /\ nExit' = nExit
  /\ UNCHANGED <<nPlatform, nPlan, nStartIo, nRelayEvaluated, nPending, nRequests>>
  /\ UNCHANGED <<base, auxButNotify>>

\* any other platform: no notification
NotifySkipped ==
  /\ nPc = "notify"
  /\ nPlatform \notin {"darwin", "win32"}
  /\ nPc' = "relay"
  /\ UNCHANGED <<nPlatform, nPlan, nStartIo, nNotified, nNotifyOutcome,
                 nRelayEvaluated, nPending, nRequests, nExit>>
  /\ UNCHANGED <<base, auxButNotify>>

\* maybeSendTelegram up to its first request
EvaluateRelay ==
  /\ nPc = "relay"
  /\ nRelayEvaluated' = TRUE
  /\ nPending' = nPlan
  /\ IF nPlan = <<>>
     THEN nPc' = "done" /\ nExit' = "success"
     ELSE nPc' = "send" /\ nExit' = nExit
  /\ UNCHANGED <<nPlatform, nPlan, nStartIo, nNotified, nNotifyOutcome, nRequests>>
  /\ UNCHANGED <<base, auxButNotify>>

\* one request of sendTelegramMessage for the message in progress
RelayRequest(response) ==
  /\ nPc = "send"
  /\ LET m == Head(nPending)
         plainText == StripTelegramHtml(m.text)
         left == IF response # "ok" /\ ShouldRetry(m.parseMode, plainText)
                 THEN <<[m EXCEPT !.text = plainText, !.parseMode = "none"]>>
                        \o Tail(nPending)
                 ELSE Tail(nPending)
     IN /\ nRequests' = Append(nRequests,
                               [msg |-> m.id, parseMode |-> m.parseMode,
                                ok |-> response = "ok"])
        /\ nPending' = left
        /\ IF left = <<>>
           THEN nPc' = "done" /\ nExit' = "success"
           ELSE nPc' = "send" /\ nExit' = nExit
  /\ UNCHANGED <<nPlatform, nPlan, nStartIo, nNotified, nNotifyOutcome,
                 nRelayEvaluated>>
  /\ UNCHANGED <<base, auxButNotify>>

\* the summary, plain, and chunks of the full response, formatted
SummaryMessage == [id |-> 1, text |-> <<"b">>, parseMode |-> "none"]
RichTexts == {<<"<", "b", ">", "b">>, <<"<", "b", ">">>}
Chunk(id, text) == [id |-> id, text |-> text, parseMode |-> "HTML"]

\* nothing where the relay is not configured or the duration below the
\* minimum, else the summary and the chunks
RelayPlans ==
  {<<>>, <<SummaryMessage>>}
    \cup {<<SummaryMessage, Chunk(2, t)>> : t \in RichTexts}
    \cup {<<SummaryMessage, Chunk(2, t), Chunk(3, u)>> : t \in RichTexts,
                                                          u \in RichTexts}

NotifyInit ==
  /\ \E platform \in {"darwin", "win32", "other"}, plan \in RelayPlans :
       NotifyStart(platform, plan)
  /\ AuxStartButNotify
  /\ BaseStart

NotifyNext ==
  \/ \E result \in {"ok", "readFails", "writeFails"} : GetDuration(result)
  \/ \E result \in {"ok", "launchError", "timeout"} : NotifyOs(result)
  \/ NotifySkipped
  \/ EvaluateRelay
  \/ \E response \in {"ok", "notOk", "none"} : RelayRequest(response)

SpecNotify == NotifyInit /\ [][NotifyNext]_vars

\* no failure leaves notify, the notification is launched once at most, and
\* a finished run has evaluated the relay and exits with success
NeverPropagated ==
  /\ nExit # "failure"
  /\ nNotified <= 1
  /\ nPc = "done" => (nRelayEvaluated /\ nExit = "success")

SUMMARY_LIMIT == 320
REQUEST_LIMIT == 220
FILES_LIMIT == 280
FILES_COUNT == 8

\* value.trim()
TrimText(s) ==
  LET inked == {i \in 1..Len(s) : s[i] \notin WhiteSpace}
  IN IF inked = {} THEN <<>>
     ELSE SubSeq(s, CHOOSE i \in inked : \A j \in inked : i <= j,
                    CHOOSE i \in inked : \A j \in inked : j <= i)

\* value.replace(/\s+/g, " ")
CollapseSpaces(s) ==
  LET marked == [i \in 1..Len(s) |->
                   [ch |-> IF s[i] \in WhiteSpace THEN " " ELSE s[i],
                    first |-> s[i] \notin WhiteSpace
                                \/ i = 1 \/ s[i - 1] \notin WhiteSpace]]
      kept == SelectSeq(marked, LAMBDA m : m.first)
  IN [i \in 1..Len(kept) |-> kept[i].ch]

Normalize(s) == CollapseSpaces(TrimText(s))

\* pickFirstString of one path: "" unless a text that is not blank
PickFirstString(value) ==
  IF value.present /\ ~IsBlank(value.text) THEN Normalize(value.text) ELSE <<>>

ELLIPSIS == <<".", ".", ".">>

\* truncateText: the text as it is where it fits, else its first
\* maxLength - 1 characters and three dots
TruncateText(value, maxLength) ==
  IF maxLength <= 0 THEN <<>>
  ELSE IF Len(Normalize(value)) <= maxLength
  THEN Normalize(value)
  ELSE SubSeq(Normalize(value), 1, maxLength - 1) \o ELLIPSIS

ToUpperCase(s) ==
  [i \in 1..Len(s) |-> CASE s[i] = "o" -> "O"
                         [] s[i] = "k" -> "K"
                         [] OTHER -> s[i]]

GetPayloadStatus(payload) == ToUpperCase(PickFirstString(payload.status))
GetPayloadModel(payload) == PickFirstString(payload.model)
GetPayloadSummary(payload) ==
  TruncateText(PickFirstString(payload.summary), SUMMARY_LIMIT)
GetPayloadRequestPreview(payload) ==
  TruncateText(PickFirstString(payload.request), REQUEST_LIMIT)

\* the entries trimmed, the empty ones left out, the first eight kept
GetPayloadChangedFiles(payload) ==
  LET trimmed == [i \in 1..Len(payload.changedFiles) |->
                    TrimText(payload.changedFiles[i])]
      kept == SelectSeq(trimmed, LAMBDA f : f # <<>>)
  IN SubSeq(kept, 1, IF Len(kept) < FILES_COUNT THEN Len(kept) ELSE FILES_COUNT)

\* list.join(", ")
RECURSIVE Join(_)
Join(list) ==
  IF list = <<>> THEN <<>>
  ELSE IF Len(list) = 1 THEN Head(list)
  ELSE Head(list) \o <<",", " ">> \o Join(Tail(list))

FormatOneDecimal(durationMs) ==
  IF durationMs = NoEntry THEN [int |-> 0, frac |-> 0]
  ELSE [int |-> ((durationMs + 50) \div 100) \div 10,
        frac |-> ((durationMs + 50) \div 100) % 10]

\* formatSeconds of durationMs / 1000: the number String() prints, its
\* integer part and its one decimal, 0 where none is printed
FormatSeconds(durationMs) ==
  IF durationMs = NoEntry THEN [int |-> 0, frac |-> 0]
  ELSE IF durationMs >= 60000
  THEN [int |-> (durationMs + 500) \div 1000, frac |-> 0]
  ELSE [int |-> ((durationMs + 50) \div 100) \div 10,
        frac |-> ((durationMs + 50) \div 100) % 10]

Line(label, value) == [label |-> label, value |-> value]

BuildTelegramMessage(payload, durationMs) ==
  LET durationPart == IF durationMs = NoEntry
                      THEN [kind |-> "unknown duration", int |-> 0, frac |-> 0]
                      ELSE [kind |-> "s",
                            int |-> FormatSeconds(durationMs).int,
                            frac |-> FormatSeconds(durationMs).frac]
      payloadStatus == IF GetPayloadStatus(payload) # <<>>
                       THEN GetPayloadStatus(payload)
                       ELSE payload.envStatus
      model == GetPayloadModel(payload)
      summary == GetPayloadSummary(payload)
      requestPreview == GetPayloadRequestPreview(payload)
      changedFiles == GetPayloadChangedFiles(payload)
  IN <<Line("Cursor Notifier", <<>>), Line("", <<>>),
       Line("Project", <<"p">>),
       Line("Status", payloadStatus),
       Line("Duration", durationPart)>>
     \o (IF model # <<>> THEN <<Line("Model", model)>> ELSE <<>>)
     \o (IF payload.generationId.present /\ payload.generationId.text # <<>>
         THEN <<Line("Generation", payload.generationId.text)>> ELSE <<>>)
     \o (IF changedFiles # <<>>
         THEN <<Line("Files", TruncateText(Join(changedFiles), FILES_LIMIT))>>
         ELSE <<>>)
     \o (IF summary # <<>>
         THEN <<Line("", <<>>), Line("Summary", <<>>), Line("summary", summary)>>
         ELSE <<>>)
     \o (IF requestPreview # <<>>
         THEN <<Line("", <<>>), Line("Request", <<>>),
                Line("request", requestPreview)>>
         ELSE <<>>)

BuildMessage ==
  /\ ~gDone
  /\ gLines' = BuildTelegramMessage(gPayload, gDurationMs)
  /\ gDone' = TRUE
  /\ UNCHANGED <<gPayload, gDurationMs>>
  /\ UNCHANGED <<base, auxButMessage>>

\* n letters
Fill(n) == [i \in 1..n |-> "a"]

\* texts of a field: of letters only, and with white space around and inside
FieldTexts ==
  {Fill(n) : n \in 0..MaxFieldLen}
    \cup {<<" ", NEWLINE>> \o Fill(n) \o <<" ", " ">> \o Fill(2) \o <<" ">> :
            n \in {0, 1, MaxFieldLen - 6}}

StatusTexts == {<<"o", "k">>, <<" ", "O", "k", " ">>, <<"e", "r", "r">>, <<" ">>}
MessageDurations ==
  {NoEntry, 0, 40, 50, 1549, 1550, 59949, 59950, 59999, 60000, 60499, 60500,
   90000}

\* payloads that differ in the header fields
HeaderPayloads ==
  {[NoPayload EXCEPT !.status = st, !.model = mo, !.generationId = ge,
                     !.envStatus = env] :
     st \in {Missing} \cup {Text(t) : t \in StatusTexts},
     mo \in {Missing, Text(<<"x">>), Text(<<" ">>)},
     ge \in {Missing, Text(<<"g", "1">>), Text(<<>>)},
     env \in {<<"O", "K">>, <<"o", "k">>}}

\* payloads that differ in the summary, the request or the changed files
BodyPayloads ==
  {[NoPayload EXCEPT !.summary = Text(t)] : t \in FieldTexts}
    \cup {[NoPayload EXCEPT !.request = Text(t)] : t \in FieldTexts}
    \cup {[NoPayload EXCEPT !.changedFiles = [i \in 1..k |-> f]] :
            k \in 0..MaxFiles,
            f \in {Fill(1), <<" ">> \o Fill(40), <<" ">>, Fill(MaxFieldLen)}}

MessageInit ==
  /\ \/ \E payload \in HeaderPayloads, durationMs \in MessageDurations :
          MessageStart(payload, durationMs)
     \/ \E payload \in BodyPayloads : MessageStart(payload, 90000)
  /\ AuxStartButMessage
  /\ BaseStart

MessageNext == BuildMessage

SpecMessage == MessageInit /\ [][MessageNext]_vars

\* the values of the lines with a label
ValuesOf(label) ==
  {gLines[i].value : i \in {j \in 1..Len(gLines) : gLines[j].label = label}}

\* C25: in every message built the summary has at most 320 characters, the
\* request preview at most 220, the joined changed files at most 280, and
\* at most 8 changed files are taken.
C25_FieldLimits ==
  gDone => /\ \A t \in ValuesOf("summary") : Len(t) <= SUMMARY_LIMIT
           /\ \A t \in ValuesOf("request") : Len(t) <= REQUEST_LIMIT
           /\ \A t \in ValuesOf("Files") : Len(t) <= FILES_LIMIT
           /\ Len(GetPayloadChangedFiles(gPayload)) <= FILES_COUNT

\* the labels of the lines that have a value, in their order
Labels == SelectSeq([i \in 1..Len(gLines) |-> gLines[i].label],
                    LAMBDA l : l \in {"Project", "Status", "Duration", "Model",
                                      "Generation"})

Distance(a, b) == IF a < b THEN b - a ELSE a - b

\* the payload has a status, a model, a generation id
HasText(value) == value.present /\ ~IsBlank(value.text)

\* C26: the duration is printed as the nearest whole number of seconds, no
\* decimal, from 60 s on, and to the nearest tenth below 60 s; the fields come
\* as Project, Status (the payload's status in upper case, else the default),
\* Duration, then Model and Generation where the payload has them; status ok,
\* model x, generation g1 and 90000 ms give "Duration: 90 s", "Model: x",
\* "Generation: g1".
C26_DurationAndFieldOrder ==
  gDone =>
    /\ Labels = <<"Project", "Status", "Duration">>
                  \o (IF HasText(gPayload.model) THEN <<"Model">> ELSE <<>>)
                  \o (IF HasText(gPayload.generationId)
                      THEN <<"Generation">> ELSE <<>>)
    /\ gLines[4].value =
         IF HasText(gPayload.status)
         THEN ToUpperCase(Normalize(gPayload.status.text))
         ELSE gPayload.envStatus
    /\ gDurationMs # NoEntry =>
         /\ gLines[5].value.kind = "s"
         /\ gLines[5].value.frac \in 0..9
         /\ gDurationMs >= 60000 =>
              /\ gLines[5].value.frac = 0
              /\ Distance(gLines[5].value.int * 1000, gDurationMs) <= 500
         /\ gDurationMs < 60000 =>
              Distance((gLines[5].value.int * 10 + gLines[5].value.frac) * 100,
                       gDurationMs) <= 50
    /\ (/\ gPayload.status = Text(<<"o", "k">>)
        /\ gPayload.model = Text(<<"x">>)
        /\ gPayload.generationId = Text(<<"g", "1">>)
        /\ gDurationMs = 90000)
         => /\ gLines[4] = Line("Status", <<"O", "K">>)
            /\ gLines[5] = Line("Duration", [kind |-> "s", int |-> 90, frac |-> 0])
            /\ gLines[6] = Line("Model", <<"x">>)
            /\ gLines[7] = Line("Generation", <<"g", "1">>)

\* the message of status ok, model x, generation g1 after 90000 ms
C26_Witness ==
  /\ gDone
  /\ gPayload.status = Text(<<"o", "k">>)
  /\ gPayload.model = Text(<<"x">>)
  /\ gPayload.generationId = Text(<<"g", "1">>)
  /\ gDurationMs = 90000
  /\ gLines[5] = Line("Duration", [kind |-> "s", int |-> 90, frac |-> 0])
  /\ Len(gLines) = 7

(***************************************************************************)
(* A process that stops while it holds the lock of hooks.json.             *)
(***************************************************************************)
\* the process of caller c ends between fs.open(lockPath, "wx") and the
\* finally block of withHooksJsonLock: nothing of it runs any more, and
\* hooks.json.lock stays
Crash(c) ==
  /\ Holding(c)
  /\ pc' = [pc EXCEPT ![c] = "crashed"]
  /\ UNCHANGED <<files, consent, op, attempt, pending, err, outcome, counters,
                 history, lockHistory, others>>

\* activation with the consent given, deactivation, and a crash
NextCrash ==
  \/ \E c \in Callers : StartEnsure(c, FALSE)
  \/ \E c \in Callers : CopyHooks(c)
  \/ \E c \in Callers : StartDeactivate(c)
  \/ \E c \in Callers : LockOpen(c)
  \/ \E c \in Callers : Act(c)
  \/ \E c \in Callers : WriteOk(c)
  \/ \E c \in Callers : Release(c)
  \/ \E c \in Callers : EnsureFinish(c)
  \/ \E c \in Callers : DeactivateFinish(c)
  \/ \E c \in Callers : Crash(c)

SpecCrash == Init /\ [][NextCrash]_vars

Crashed == \E c \in Callers : pc[c] = "crashed"

\* C27: once a caller has stopped while holding the lock, the lock file stays
\* its own, every call of withHooksJsonLock that ends after that ends with
\* the timeout, and hooks.json is not written again.
C27_StaleLockBlocksAll ==
  [][/\ \A c \in Callers : pc'[c] = "crashed" => lockFile' = c
     /\ Crashed =>
          /\ hooksFile' = hooksFile
          /\ \A d \in Callers :
               (pc[d] = "open" /\ pc'[d] # "open")
                 => (pc'[d] = "lockdone" /\ outcome'[d] = "timeout")]_vars

\* caller 1 stopped holding the lock, and the call of caller 2 that found the
\* lock file timed out after all its retries
C27_Witness ==
  /\ pc[1] = "crashed" /\ lockFile = 1
  /\ pc[2] = "lockdone" /\ outcome[2] = "timeout"
  /\ opens[2] = LOCK_MAX_RETRIES + 1
  /\ ran[2] = 0

(***************************************************************************)
(* What upsertHooksJson and removeHookCommand leave alone.                 *)
(***************************************************************************)
\* the commands of an event's list
CommandsOf(l) == Range(Items(l))

\* hooks.json has a numeric version, a hooks mapping, and both commands, each
\* in the list of its event
FullyProvisioned(f) ==
  /\ f.kind = "json"
  /\ f.version # "absent"
  /\ f.hooks = "obj"
  /\ HOOK_COMMAND_AFTER \in CommandsOf(f.after)
  /\ HOOK_COMMAND_BEFORE \in CommandsOf(f.before)

\* hooks.json is missing or has none of the tool's commands
NothingToRemove(f) ==
  \/ f.kind = "nofile"
  \/ (CommandsOf(f.after) \cup CommandsOf(f.before)) \cap HOOK_COMMANDS = {}

\* C28: upsertHooksJson on a registry with a numeric version, a hooks mapping
\* and both commands, and removeHookCommand on a registry that is missing or
\* has none of the commands, write nothing: hooks.json is as it was, and is
\* not created.
C28_NoOpWritesNothing ==
  \A i \in 1..Len(seqLog) :
    (\/ seqLog[i].op = "upsert" /\ FullyProvisioned(seqLog[i].pre)
     \/ seqLog[i].op = "remove" /\ NothingToRemove(seqLog[i].pre))
      => /\ seqLog[i].outcome # "write"
         /\ seqLog[i].post = seqLog[i].pre

\* an upsert on a provisioned registry that also holds a user command wrote
\* nothing
C28_Witness ==
  /\ Len(seqLog) = 1
  /\ seqLog[1].op = "upsert"
  /\ FullyProvisioned(seqLog[1].pre)
  /\ "U1" \in CommandsOf(seqLog[1].pre.after)
  /\ seqLog[1].outcome = "same"

\* C29: upsertHooksJson and removeHookCommand leave the entries that are not
\* the tool's commands as they are and in their order, leave what hooks.json
\* holds besides version and the two events as it is (other top-level fields,
\* other events, so that no event but the two of an upsert gains a key), and
\* an upsert puts its command at the end of the event's list.
C29_FrameOfEdits ==
  \A i \in 1..Len(seqLog) :
    LET pre == seqLog[i].pre
        post == seqLog[i].post
    IN /\ WithoutToolCommands(Items(post.after))
            = WithoutToolCommands(Items(pre.after))
       /\ WithoutToolCommands(Items(post.before))
            = WithoutToolCommands(Items(pre.before))
       /\ post.rest = pre.rest
       /\ pre.version # "absent" => post.version = pre.version
       /\ (seqLog[i].op = "upsert" /\ seqLog[i].outcome = "write")
            => /\ Items(post.after)
                    = Items(pre.after)
                        \o (IF HOOK_COMMAND_AFTER \in CommandsOf(pre.after)
                            THEN <<>> ELSE <<HOOK_COMMAND_AFTER>>)
               /\ Items(post.before)
                    = Items(pre.before)
                        \o (IF HOOK_COMMAND_BEFORE \in CommandsOf(pre.before)
                            THEN <<>> ELSE <<HOOK_COMMAND_BEFORE>>)

\* an upsert wrote both commands after the user commands of a registry with
\* other fields and events, and a remove took them out again
C29_Witness ==
  /\ Len(seqLog) = 2
  /\ seqLog[1].op = "upsert" /\ seqLog[1].outcome = "write"
  /\ seqLog[1].pre.rest = "kept"
  /\ seqLog[1].pre.after = ListOf(<<"U2">>)
  /\ seqLog[1].post.after = ListOf(<<"U2", HOOK_COMMAND_AFTER>>)
  /\ seqLog[1].post.before = ListOf(<<"U1", HOOK_COMMAND_BEFORE>>)
  /\ seqLog[2].op = "remove" /\ seqLog[2].outcome = "write"
  /\ seqLog[2].post.rest = "kept"

(***************************************************************************)
(* ensureCursorHook, one call alone: the lock is free, and the steps after *)
(* upsertHooksJson may fail.                                               *)
(***************************************************************************)
ThrowsOnFailure(ok) == ~ok

\* what leaves the try block around ensureGitignoreEntries, and the one
\* around syncWorkspaceConfig, when the step fails: nothing, the catch logs
BestEffortThrows(ok) == FALSE

\* the inputs of a call: the folder is a directory, the prompt is allowed,
\* the user's answer should it be shown, the outcome of writeJsonAtomic, the
\* autoIgnoreGitFiles setting, the outcomes of ensureGitignoreEntries and of
\* syncWorkspaceConfig
EnsureInputs ==
  [isDir : BOOLEAN, allowPrompt : BOOLEAN,
   choice : {"Enable notifications", "Not now", "dismissed"},
   writeOk : BOOLEAN, autoIgnore : BOOLEAN, ignoreOk : BOOLEAN, syncOk : BOOLEAN]

\* ensureCursorHook on what it finds: what it returns and leaves behind.
\* reached: the call got to the steps after upsertHooksJson
EnsureCursorHook(f, sc, enabled, skip, ignore, synced, in) ==
  LET cfg == ReadHooksConfig(f)
      asFound == [returned |-> FALSE, reached |-> FALSE, file |-> f,
                  scripts |-> sc, enabledKey |-> enabled,
                  skipKey |-> skip, ignore |-> ignore, synced |-> synced]
      known == enabled \/ cfg.hasHookCommand
      prompted == ~cfg.hasHookCommand /\ in.allowPrompt /\ ~known /\ ~skip
      shouldEnable == \/ cfg.hasHookCommand
                      \/ ~in.allowPrompt
                      \/ known
                      \/ (prompted /\ in.choice = "Enable notifications")
      enabledAfter == known \/ (prompted /\ in.choice = "Enable notifications")
      skipAfter == IF prompted
                   THEN CASE in.choice = "Enable notifications" -> FALSE
                          [] in.choice = "Not now" -> TRUE
                          [] OTHER -> skip
                   ELSE skip
      asked == [asFound EXCEPT !.enabledKey = enabledAfter, !.skipKey = skipAfter,
                               !.returned = cfg.hasHookCommand]
      copied == [s \in DOMAIN sc |-> CopyHookIfMissing(sc[s])]
      r == UpsertAction(f)
      caught == [asked EXCEPT !.scripts = copied]
      upserted == [caught EXCEPT !.file = IF r.outcome = "write" THEN r.config ELSE f]
      ignoreFails == in.autoIgnore /\ ~in.ignoreOk
  IN IF ~in.isDir \/ ~cfg.valid THEN asFound
     ELSE IF ~shouldEnable THEN asked
     ELSE IF r.outcome = "throw" \/ (r.outcome = "write" /\ ~in.writeOk) THEN caught
     ELSE IF BestEffortThrows(~ignoreFails) THEN [caught EXCEPT !.reached = TRUE,
                                                           !.file = upserted.file]
     ELSE IF BestEffortThrows(in.syncOk)
       THEN [upserted EXCEPT !.reached = TRUE,
                             !.ignore = ignore \/ (in.autoIgnore /\ in.ignoreOk)]
     ELSE [upserted EXCEPT !.reached = TRUE, !.returned = TRUE,
                           !.ignore = ignore \/ (in.autoIgnore /\ in.ignoreOk),
                           !.synced = synced \/ in.syncOk]

Provision(in) ==
  /\ ~pLast.ran
  /\ LET r == EnsureCursorHook(pFile, pScripts, pEnabledKey, pSkipKey, pIgnore,
                               pSynced, in)
     IN /\ pFile' = r.file
        /\ pScripts' = r.scripts
        /\ pEnabledKey' = r.enabledKey
        /\ pSkipKey' = r.skipKey
        /\ pIgnore' = r.ignore
        /\ pSynced' = r.synced
        /\ pLast' = [ran |-> TRUE, in |-> in, returned |-> r.returned,
                     reached |-> r.reached,
                     found |-> [file |-> pFile, scripts |-> pScripts,
                                enabledKey |-> pEnabledKey, skipKey |-> pSkipKey,
                                ignore |-> pIgnore, synced |-> pSynced]]
  /\ UNCHANGED <<base, auxButProvision>>

ProvisionInit ==
  /\ \E w \in InitWorkspaces, enabled \in BOOLEAN, skip \in BOOLEAN :
       ProvisionStart(w[1], w[2], enabled, skip)
  /\ AuxStartButProvision
  /\ BaseStart

ProvisionNext == \E in \in EnsureInputs : Provision(in)

SpecProvision == ProvisionInit /\ [][ProvisionNext]_vars

\* the last call with both steps succeeding instead
WithStepsOk ==
  EnsureCursorHook(pLast.found.file, pLast.found.scripts, pLast.found.enabledKey,
                   pLast.found.skipKey, pLast.found.ignore, pLast.found.synced,
                   [pLast.in EXCEPT !.ignoreOk = TRUE, !.syncOk = TRUE])

\* C30: a call of ensureCursorHook that got past upsertHooksJson returns
\* true with the tool's commands in hooks.json and both scripts in place,
\* whether the update of .gitignore and the sync of the workspace config
\* fail or not: what it returns, hooks.json and the scripts are as they are
\* when both steps succeed.
C30_BestEffortStepsDoNotAbort ==
  (pLast.ran /\ pLast.reached)
    => /\ pLast.returned = TRUE
       /\ HasBothCommands(pFile)
       /\ \A s \in DOMAIN pScripts : pScripts[s] # "absent"
       /\ pLast.returned = WithStepsOk.returned
       /\ pFile = WithStepsOk.file
       /\ pScripts = WithStepsOk.scripts

\* a call on a folder without hooks.json and scripts in which both steps
\* failed: it returned true, with the commands written and the scripts copied
C30_Witness ==
  /\ pLast.ran /\ pLast.reached
  /\ pLast.found.file = NoFile
  /\ pLast.in.autoIgnore /\ ~pLast.in.ignoreOk /\ ~pLast.in.syncOk
  /\ pLast.returned = TRUE
  /\ HasBothCommands(pFile)
  /\ \A s \in DOMAIN pScripts : pScripts[s] = "bundled"
  /\ ~pIgnore /\ ~pSynced

(***************************************************************************)
(* The loop of splitTextByLimit.                                           *)
(***************************************************************************)
\* what one iteration of the while loop leaves of a text longer than limit
AfterIteration(remaining, limit) ==
  DropLeadingBreak(SliceFrom(remaining, SplitAt(remaining, limit)))

\* C40: splitTextByLimit ends for every text and every limit of 1 or more:
\* an iteration of its loop cuts at least one character off the text that
\* remains (every text longer than limit is such a text), and no chunk
\* returned is empty.
C40_SplitTerminates ==
  tDone => /\ \A i \in 1..Len(tChunks) : tChunks[i] # <<>>
           /\ Len(tText) > tLimit
                => /\ SplitAt(tText, tLimit) >= 1
                   /\ Len(AfterIteration(tText, tLimit)) < Len(tText)

\* a text that starts with a line break, cut in three iterations at limit 1
C40_Witness ==
  /\ tDone
  /\ tLimit = 1
  /\ tText = <<NEWLINE, "a", NEWLINE, "b">>
  /\ Len(tChunks) = 3

(***************************************************************************)
(* Claims on the concurrent specification: the action under the lock, the  *)
(* return value, scripts and consent.                                      *)
(***************************************************************************)
\* C39: one call of withHooksJsonLock runs its action at most once: after
\* the action has run, whatever it threw, the call does not open the lock
\* again and does not run the action again.
C39_ActionRunsOnce ==
  \A c \in Callers : ran[c] <= 1

\* C38: ensureCursorHook returns true only if hooks.json holds both of the
\* tool's commands when the call is over (one call alone, so nothing removes
\* them meanwhile).
C38_TrueOnlyWithBothCommands ==
  (pLast.ran /\ pLast.returned) => HasBothCommands(pFile)

\* the commands of hooks.json name their scripts: buildHookCommand(script)
ScriptOf(command) ==
  IF command = HOOK_COMMAND_AFTER THEN "after-agent-response.js"
  ELSE "before-submit-prompt.js"

\* the tool's commands listed in hooks.json under their events
ListedCommands(f) ==
  IF f.kind # "json" THEN {}
  ELSE ({HOOK_COMMAND_AFTER} \cap Range(Items(f.after)))
         \cup ({HOOK_COMMAND_BEFORE} \cap Range(Items(f.before)))

\* C37: whenever hooks.json lists one of the tool's commands, the script the
\* command runs exists in .cursor/hooks: the scripts are copied before the
\* registry is written, and teardown deletes a script only once its command
\* is out of the registry.
C37_ListedCommandHasScript ==
  \A command \in ListedCommands(hooksFile) : scripts[ScriptOf(command)] # "absent"

\* a step in which an operation starts, a prompt is open or opens, or a
\* stored answer changes
ConsentStep ==
  \/ opsStarted' # opsStarted
  \/ enabledKey' # enabledKey \/ skipKey' # skipKey
  \/ \E c \in Callers : pc[c] = "prompt" \/ pc'[c] = "prompt"

SyncWorkspaceConfig(synced, ok) == synced \/ ok

\* a handler calls ensureCursorHook with the prompt allowed on a directory
EventInputs == {in \in EnsureInputs : in.isDir /\ in.allowPrompt}

\* ensureCursorHook, then syncWorkspaceConfig, on the folder
EnsureThenSync(in, syncOk) ==
  LET r == EnsureCursorHook(pFile, pScripts, pEnabledKey, pSkipKey, pIgnore,
                            pSynced, in)
  IN /\ pFile' = r.file
     /\ pScripts' = r.scripts
     /\ pEnabledKey' = r.enabledKey
     /\ pSkipKey' = r.skipKey
     /\ pIgnore' = r.ignore
     /\ pSynced' = SyncWorkspaceConfig(r.synced, syncOk)

\* activate: with cursor-notifier.enabled set, ensureCursorHook for every
\* folder open now, then syncWorkspaceConfig for every one of them
Activate(setting, open, in, syncOk) ==
  /\ ~pLast.ran
  /\ pLast' = [ran |-> TRUE, setting |-> setting, atActivation |-> open,
               open |-> open, events |-> 0]
  /\ IF setting /\ open
       THEN EnsureThenSync(in, syncOk)
       ELSE UNCHANGED <<pFile, pScripts, pEnabledKey, pSkipKey, pIgnore, pSynced>>
  /\ UNCHANGED <<base, auxButProvision>>

\* the handler of onDidChangeWorkspaceFolders when the folder is added:
\* nothing when the setting is off, else ensureCursorHook and
\* syncWorkspaceConfig for the added folder
FolderAdded(in, syncOk) ==
  /\ pLast.ran /\ ~pLast.open
  /\ pLast' = [pLast EXCEPT !.open = TRUE]
  /\ IF pLast.setting
       THEN EnsureThenSync(in, syncOk)
       ELSE UNCHANGED <<pFile, pScripts, pEnabledKey, pSkipKey, pIgnore, pSynced>>
  /\ UNCHANGED <<base, auxButProvision>>

\* the handler of onDidChangeConfiguration after a change of the tool's
\* settings that leaves cursor-notifier.enabled at `setting`: nothing when
\* it is off, else syncWorkspaceConfig for every folder that was open at
\* activation
ConfigurationChanged(setting, syncOk) ==
  /\ pLast.ran /\ pLast.events < MaxEvents
  /\ pLast' = [pLast EXCEPT !.setting = setting, !.events = @ + 1]
  /\ pSynced' = IF setting /\ pLast.atActivation
                  THEN SyncWorkspaceConfig(pSynced, syncOk)
                  ELSE pSynced
  /\ UNCHANGED <<pFile, pScripts, pEnabledKey, pSkipKey, pIgnore>>
  /\ UNCHANGED <<base, auxButProvision>>

EventsNext ==
  \/ \E setting \in BOOLEAN, open \in BOOLEAN, in \in EventInputs, syncOk \in BOOLEAN :
       Activate(setting, open, in, syncOk)
  \/ \E in \in EventInputs, syncOk \in BOOLEAN : FolderAdded(in, syncOk)
  \/ \E setting \in BOOLEAN, syncOk \in BOOLEAN : ConfigurationChanged(setting, syncOk)

SpecEvents == ProvisionInit /\ [][EventsNext]_vars

\* C36: activation, the addition of the folder and a change of the settings
\* create or change hooks.json, a hook script, .gitignore or the workspace
\* config of a folder only if the folder's consent is stored (at the latest
\* by the answer given in this very event) or its registry references a
\* command of the tool.
C36_NoFileWithoutConsent ==
  [][<<pFile, pScripts, pIgnore, pSynced>>' # <<pFile, pScripts, pIgnore, pSynced>>
       => (pEnabledKey' \/ HasToolCommand(pFile))]_vars

(***************************************************************************)
(* recordStart of the before-hook on its payload.                          *)
(***************************************************************************)
NoId == "none"

\* the values of a payload field that `||` passes over: undefined and ""
Falsy == {NoId, ""}

\* what the before-hook may get on stdin: nothing, blanks, text that is not
\* JSON, a JSON scalar, or an object with or without the two id fields
BeforePayloads ==
  {[kind |-> k, generation_id |-> NoId, generationId |-> NoId] :
     k \in {"absent", "blank", "garbage", "scalar"}}
    \cup {[kind |-> "object", generation_id |-> a, generationId |-> b] :
            a \in Falsy \cup Gens, b \in Falsy \cup Gens}

\* parseJson: null for an empty or blank text and for text JSON.parse throws on
ParseJson(raw) == IF raw.kind \in {"absent", "blank", "garbage"} THEN "null" ELSE raw.kind

GetGenerationIdCamelOnly(payload) ==
  IF ParseJson(payload) # "object" \/ payload.generationId \in Falsy THEN NoId
  ELSE payload.generationId

\* getGenerationId: payload.generation_id || payload.generationId || null
GetGenerationId(payload) ==
  IF ParseJson(payload) # "object" THEN NoId
  ELSE IF payload.generation_id \notin Falsy THEN payload.generation_id
  ELSE IF payload.generationId \notin Falsy THEN payload.generationId
  ELSE NoId

\* recordStart(rawInput) up to writeJsonFile
RecordStartOn(p, payload) ==
  IF GetGenerationId(payload) = NoId THEN RecordStartNoId(p)
  ELSE RecordStart(p, GetGenerationId(payload))

\* the payload is a JSON object with a generation id
HasGenerationId(payload) ==
  /\ payload.kind = "object"
  /\ payload.generation_id \in Gens \/ payload.generationId \in Gens

\* the generation id of such a payload: generation_id before generationId
IdOf(payload) ==
  IF payload.generation_id \in Gens THEN payload.generation_id ELSE payload.generationId

\* C32: recordStart changes nothing when the payload is absent, does not
\* parse or has no generation id.  Otherwise it builds, and writeJsonFile
\* then persists, the table it read (the empty table when the file is
\* missing or does not parse) with the generation id mapped to the time of
\* the call and every other entry as it was; with the hooks running one
\* after the other, the other entries are those persisted before the call.
C32_RecordStartFrame ==
  [][/\ \A p \in HookProcs, payload \in BeforePayloads :
          (hookRuns' # hookRuns /\ RecordStartOn(p, payload))
            => IF ~HasGenerationId(payload)
                 THEN UNCHANGED <<startFile, hdata, hpc, hjob, live>>
                 ELSE LET g == IdOf(payload)
                          read == IF startFile.kind = "table" THEN startFile.table
                                  ELSE EmptyTable
                      IN /\ hpc'[p] = "open" /\ hjob'[p].kind = "before"
                         /\ hjob'[p].gen = g
                         /\ hdata'[p][g] = now
                         /\ \A h \in Gens \ {g} : hdata'[p][h] = read[h]
                         /\ UNCHANGED startFile
     /\ \A p \in HookProcs :
          (/\ hjob[p].kind = "before" /\ hpc[p] = "data" /\ hpc'[p] = "idle"
           /\ ~overlap')
            => /\ startFile' = TableFile(hdata[p])
               /\ \A h \in Gens \ {hjob[p].gen} : startFile'.table[h] = live[h]]_vars

\* two recordStart calls one after the other on a folder without a
\* start-time file: g1 at time 0, then g2 at time 1, both persisted
C32_Witness ==
  /\ ~overlap /\ AllHooksIdle /\ hookRuns = 2
  /\ startFile = TableFile([g \in Gens |-> IF g = "g1" THEN 0 ELSE 1])

(***************************************************************************)
(* Config sync: the handler of onDidChangeConfiguration starts             *)
(* syncWorkspaceConfig without waiting for the calls started before; the   *)
(* file operations of the calls in flight complete in any order.           *)
(***************************************************************************)
\* `${filePath}.tmp-${process.pid}-${Date.now()}` for the one config path and
\* the one extension process: the name varies with the millisecond only
TempPath(millis) == millis

\* the settings change and the handler runs up to its first await:
\* buildWorkspaceConfig() from the settings as they are now, the temp path,
\* then fs.mkdir is awaited
SettingsChangedSync(c) ==
  /\ yChanges < MaxChanges
  /\ yCall[c].pc = "idle" /\ \A d \in Syncers : d < c => yCall[d].pc # "idle"
  /\ yChanges' = yChanges + 1
  /\ ySettings' = ySettings + 1
  /\ yCall' = [yCall EXCEPT ![c] = [pc |-> "write", config |-> ySettings',
                                    temp |-> TempPath(yMillis)]]
  /\ UNCHANGED <<yMillis, yTemps, yDest>>
  /\ UNCHANGED <<base, auxButSync>>

\* fs.writeFile(tempPath, serialized)
WriteTemp(c) ==
  /\ yCall[c].pc = "write"
  /\ yTemps' = [t \in DOMAIN yTemps \cup {yCall[c].temp} |->
                  IF t = yCall[c].temp THEN yCall[c].config ELSE yTemps[t]]
  /\ yCall' = [yCall EXCEPT ![c].pc = "rename"]
  /\ UNCHANGED <<ySettings, yMillis, yDest, yChanges>>
  /\ UNCHANGED <<base, auxButSync>>

\* fs.rename(tempPath, filePath); when the temp file is gone it throws, and
\* the catch unlinks the temp path (ignoring a failure) and rethrows
RenameTemp(c) ==
  /\ yCall[c].pc = "rename"
  /\ IF yCall[c].temp \in DOMAIN yTemps
       THEN /\ yDest' = yTemps[yCall[c].temp]
            /\ yTemps' = [t \in DOMAIN yTemps \ {yCall[c].temp} |-> yTemps[t]]
       ELSE UNCHANGED <<yDest, yTemps>>
  /\ yCall' = [yCall EXCEPT ![c] = NoSync]
  /\ UNCHANGED <<ySettings, yMillis, yChanges>>
  /\ UNCHANGED <<base, auxButSync>>

\* a millisecond passes
SyncTick ==
  /\ yMillis < MaxMillis
  /\ yMillis' = yMillis + 1
  /\ UNCHANGED <<ySettings, yCall, yTemps, yDest, yChanges>>
  /\ UNCHANGED <<base, auxButSync>>

SyncInit ==
  /\ SyncStart(0)
  /\ AuxStartButSync
  /\ BaseStart

SyncNext ==
  \/ \E c \in Syncers : SettingsChangedSync(c)
  \/ \E c \in Syncers : WriteTemp(c)
  \/ \E c \in Syncers : RenameTemp(c)
  \/ SyncTick

SpecSync == SyncInit /\ [][SyncNext]_vars

\* C31: once every call of syncWorkspaceConfig that the settings changes
\* started has finished, the workspace config is the one built from the
\* latest settings.
C31_FinalConfigIsLatest ==
  (\A c \in Syncers : yCall[c].pc = "idle") => yDest = ySettings

\* C33: two calls of writeJsonFileAtomic in flight at the same time for the
\* same destination have different temp paths.
C33_TempPathsDistinct ==
  \A c, d \in Syncers :
    (c # d /\ yCall[c].pc # "idle" /\ yCall[d].pc # "idle")
      => yCall[c].temp # yCall[d].temp

(***************************************************************************)
(* ensureGitignoreEntries on the .gitignore of a workspace folder.         *)
(***************************************************************************)
CR == "\r"
LineSpace == {" ", CR}

GITIGNORE_ENTRIES ==
  <<".cursor/hooks.json",
    ".cursor/hooks/after-agent-response.js",
    ".cursor/hooks/before-submit-prompt.js",
    ".cursor/cursor-notifier.json",
    ".cursor/cursor-notifier-start.json">>

\* ignoreCandidates of isCursorHooksIgnored
IgnoreCandidates ==
  {".cursor", ".cursor/", ".cursor/**",
   ".cursor/hooks", ".cursor/hooks/", ".cursor/hooks/**"}

\* content.split(/\r?\n/)
RECURSIVE SplitLines(_)
SplitLines(text) ==
  LET breaks == {i \in 1..Len(text) : text[i] = NEWLINE}
  IN IF breaks = {} THEN <<text>>
     ELSE LET i == CHOOSE b \in breaks : \A k \in breaks : b <= k
              cut == IF i > 1 /\ text[i - 1] = CR THEN i - 2 ELSE i - 1
          IN <<SubSeq(text, 1, cut)>> \o SplitLines(SubSeq(text, i + 1, Len(text)))

\* line.trim()
TrimLine(line) ==
  LET inked == {i \in 1..Len(line) : line[i] \notin LineSpace}
  IN IF inked = {} THEN <<>>
     ELSE SubSeq(line, CHOOSE i \in inked : \A j \in inked : i <= j,
                       CHOOSE i \in inked : \A j \in inked : j <= i)

\* the set of trimmed lines that are neither empty nor comments
EntriesOf(lines) ==
  LET trimmed == {TrimLine(lines[i]) : i \in 1..Len(lines)}
  IN {l \in trimmed : l # <<>> /\ Head(l) # "#"}

NeverIgnored(entries) == FALSE

\* isCursorHooksIgnored: some candidate is an entry
IsCursorHooksIgnored(entries) ==
  \E candidate \in IgnoreCandidates : <<candidate>> \in entries

\* lines.join("\n")
RECURSIVE JoinLines(_)
JoinLines(lines) ==
  IF lines = <<>> THEN <<>>
  ELSE IF Len(lines) = 1 THEN Head(lines)
  ELSE Head(lines) \o <<NEWLINE>> \o JoinLines(Tail(lines))

\* content.trim().length > 0
HasInk(text) == \E i \in 1..Len(text) : text[i] \notin LineSpace \cup {NEWLINE}

\* ensureGitignoreEntries on the file: the file it leaves, and whether it
\* called fs.writeFile
EnsureGitignoreEntries(f) ==
  LET content == IF f.exists THEN f.text ELSE <<>>
      lines == SplitLines(content)
      entries == EntriesOf(lines)
      missing == SelectSeq(GITIGNORE_ENTRIES, LAMBDA entry : <<entry>> \notin entries)
      padded == IF HasInk(content) /\ lines[Len(lines)] # <<>>
                THEN Append(lines, <<>>) ELSE lines
      pushed == padded \o [i \in 1..Len(missing) |-> <<missing[i]>>]
  IN IF IsCursorHooksIgnored(entries) \/ missing = <<>>
       THEN [wrote |-> FALSE, file |-> f]
       ELSE [wrote |-> TRUE, file |-> IgnoreFile(JoinLines(pushed) \o <<NEWLINE>>)]

EnsureIgnore ==
  /\ Len(iLog) < 2
  /\ LET r == EnsureGitignoreEntries(iFile)
     IN /\ iFile' = r.file
        /\ iLog' = Append(iLog, [pre |-> iFile, post |-> r.file, wrote |-> r.wrote])
  /\ UNCHANGED <<base, auxButIgnore>>

\* lines a user's .gitignore may hold besides the patterns: an empty line,
\* a word, a comment naming a broader pattern, an entry between blanks
OtherLines ==
  {<<>>, <<"x">>, <<"#", ".cursor">>, <<" ", ".cursor/hooks.json", " ">>}

\* the fixed entries as lines
EntryLines == [i \in 1..Len(GITIGNORE_ENTRIES) |-> <<GITIGNORE_ENTRIES[i]>>]

\* lines joined by the end-of-line mark, with or without one at the end
RECURSIVE JoinWith(_, _)
JoinWith(lines, eol) ==
  IF lines = <<>> THEN <<>>
  ELSE IF Len(lines) = 1 THEN Head(lines)
  ELSE Head(lines) \o eol \o JoinWith(Tail(lines), eol)

\* the end of a line and whether the last line has one: "\n" with and
\* without, "\r\n" with
LineEnds ==
  {[eol |-> <<NEWLINE>>, final |-> TRUE], [eol |-> <<NEWLINE>>, final |-> FALSE],
   [eol |-> <<CR, NEWLINE>>, final |-> TRUE]}

IgnoreText(lines, ends) ==
  JoinWith(lines, ends.eol) \o (IF ends.final THEN ends.eol ELSE <<>>)

\* the files a call may find: none, or up to n other lines
\* followed by some of the fixed entries, or by a broader pattern and then
\* none or one of the fixed entries
InitIgnoreFiles(n) ==
  {AbsentIgnoreFile}
    \cup {IgnoreFile(IgnoreText(other \o SelectSeq(EntryLines, LAMBDA l : l \in listed),
                                ends)) :
            other \in SeqsUpTo(OtherLines, n),
            listed \in SUBSET {EntryLines[i] : i \in 1..Len(EntryLines)},
            ends \in LineEnds}
    \cup {IgnoreFile(IgnoreText(other \o << <<candidate>> >> \o listed, ends)) :
            other \in SeqsUpTo(OtherLines, n),
            candidate \in IgnoreCandidates,
            listed \in {<<>>, <<EntryLines[4]>>},
            ends \in LineEnds}

IgnoreInit ==
  /\ \E f \in InitIgnoreFiles(MaxIgnoreLines) : IgnoreStart(f)
  /\ AuxStartButIgnore
  /\ BaseStart

IgnoreNext == EnsureIgnore

SpecIgnore == IgnoreInit /\ [][IgnoreNext]_vars

\* the lines of the file, none but an empty one when it does not exist
LinesOf(f) == SplitLines(IF f.exists THEN f.text ELSE <<>>)

\* C34: ensureGitignoreEntries keeps every line of the file in its place;
\* it writes nothing, leaving the file as it is, when one of the broader
\* patterns is listed or every fixed entry is; otherwise what it appends
\* is, empty lines aside, the fixed entries that were not listed, in their
\* order; and a second call writes nothing.
C34_AppendsOnlyMissing ==
  \A n \in 1..Len(iLog) :
    LET pre == iLog[n].pre
        post == iLog[n].post
        before == LinesOf(pre)
        after == LinesOf(post)
        listed == {TrimLine(before[i]) : i \in 1..Len(before)}
        covered == \E candidate \in IgnoreCandidates : <<candidate>> \in listed
        missing == SelectSeq(GITIGNORE_ENTRIES, LAMBDA entry : <<entry>> \notin listed)
        appended == SubSeq(after, Len(before) + 1, Len(after))
    IN /\ Len(before) <= Len(after)
       /\ SubSeq(after, 1, Len(before)) = before
       /\ ~iLog[n].wrote => post = pre
       /\ iLog[n].wrote = ~(covered \/ missing = <<>>)
       /\ iLog[n].wrote
            => SelectSeq(appended, LAMBDA l : l # <<>>)
                 = [i \in 1..Len(missing) |-> <<missing[i]>>]
       /\ n = 2 => ~iLog[n].wrote

\* two calls on a file without a final newline that listed one fixed entry
\* between blanks: the first appended the four others, the second nothing
C34_Witness ==
  /\ Len(iLog) = 2
  /\ iLog[1].pre = IgnoreFile(<<"x", NEWLINE, " ", ".cursor/hooks.json", " ">>)
  /\ iLog[1].wrote /\ ~iLog[2].wrote
  /\ Len(LinesOf(iFile)) = 8
  /\ iFile = iLog[1].post

====
